---------------------------- MODULE Spec2Model ----------------------------
(***************************************************************************)
(* Model of src/calcs.ts (lines 1-423): the tub deflection calculators.    *)
(*                                                                         *)
(* Numbers.  A JavaScript number is modelled as an exact rational          *)
(* [n |-> numerator, d |-> denominator] in lowest terms with d >= 0.       *)
(* d = 0 encodes the non-finite values IEEE division produces:             *)
(*   [n |-> 1, d |-> 0] = Infinity, [n |-> -1, d |-> 0] = -Infinity,       *)
(*   [n |-> 0, d |-> 0] = NaN.                                             *)
(* Rounding of finite doubles is not modelled (arithmetic is exact), and   *)
(* Math.sin is tabulated to the nearest 1/8 at the sample coordinates.     *)
(* A missing optional field or argument is the value Undefined; both it    *)
(* and Null are kept apart from every number by a negative d.              *)
(*                                                                         *)
(* Specifications.  Spec: two invocations of the calculators on inputs     *)
(* that differ in one field.  SpecSession: calls repeated over changing    *)
(* inputs, as the page makes them.  SpecBeam: the two exported beam        *)
(* formulas on their own.  A calculator is synchronous: a call is one step.*)
(***************************************************************************)
EXTENDS Integers, Sequences, FiniteSets, TLC

Undefined == [n |-> 0, d |-> -1]

-----------------------------------------------------------------------------
(* Rational arithmetic with IEEE-style non-finite values *)

Abs(x) == IF x < 0 THEN -x ELSE x

Sign(x) == IF x > 0 THEN 1 ELSE IF x < 0 THEN -1 ELSE 0

RECURSIVE GCD(_, _)
GCD(a, b) == IF b = 0 THEN a ELSE GCD(b, a % b)

\* the number n/d (d >= 0), in lowest terms
R(n, d) ==
  IF d = 0 THEN [n |-> Sign(n), d |-> 0]
  ELSE LET g == GCD(Abs(n), d) IN [n |-> n \div g, d |-> d \div g]

Num(k) == [n |-> k, d |-> 1]

NaN == [n |-> 0, d |-> 0]
Infinity == [n |-> 1, d |-> 0]

IsNaN(a) == a.d = 0 /\ a.n = 0
IsFinite(a) == a.d > 0

Neg(a) == [n |-> -a.n, d |-> a.d]

\* a * b; factors are cancelled before multiplying
Mul(a, b) ==
  IF a.d = 0 \/ b.d = 0 THEN [n |-> Sign(a.n) * Sign(b.n), d |-> 0]
  ELSE IF a.n = 0 \/ b.n = 0 THEN Num(0)
  ELSE LET g1 == GCD(Abs(a.n), b.d)
           g2 == GCD(Abs(b.n), a.d)
       IN [n |-> (a.n \div g1) * (b.n \div g2),
           d |-> (a.d \div g2) * (b.d \div g1)]

\* 1 / a (1/0 = Infinity, 1/Infinity = 0)
Recip(a) ==
  IF a.n < 0 THEN [n |-> -a.d, d |-> -a.n]
  ELSE IF a.n = 0 /\ a.d = 0 THEN NaN
  ELSE IF a.n = 0 THEN Infinity
  ELSE IF a.d = 0 THEN Num(0)
  ELSE [n |-> a.d, d |-> a.n]

Div(a, b) == Mul(a, Recip(b))

Add(a, b) ==
  IF IsNaN(a) \/ IsNaN(b) THEN NaN
  ELSE IF a.d = 0 /\ b.d = 0 THEN (IF a.n = b.n THEN a ELSE NaN)
  ELSE IF a.d = 0 THEN a
  ELSE IF b.d = 0 THEN b
  ELSE LET g == GCD(a.d, b.d)
       IN R(a.n * (b.d \div g) + b.n * (a.d \div g), (a.d \div g) * b.d)

Sub(a, b) == Add(a, Neg(b))

\* a < b for finite a, b with positive denominators, by continued fractions
\* (no cross products)
RECURSIVE LessFin(_, _)
LessFin(a, b) ==
  LET qa == a.n \div a.d
      qb == b.n \div b.d
      ra == a.n % a.d
      rb == b.n % b.d
  IN IF qa # qb THEN qa < qb
     ELSE IF rb = 0 THEN FALSE
     ELSE IF ra = 0 THEN TRUE
     ELSE LessFin([n |-> b.d, d |-> rb], [n |-> a.d, d |-> ra])

\* a < b as JavaScript evaluates it (false when either is NaN)
Less(a, b) ==
  IF IsNaN(a) \/ IsNaN(b) THEN FALSE
  ELSE IF a.d = 0 THEN a.n < 0 /\ ~(b.d = 0 /\ b.n < 0)
  ELSE IF b.d = 0 THEN b.n > 0
  ELSE LessFin(a, b)

Greater(a, b) == Less(b, a)

Leq(a, b) == ~IsNaN(a) /\ ~IsNaN(b) /\ ~Less(b, a)

\* Math.min / Math.max of two numbers
MathMin(a, b) ==
  IF IsNaN(a) \/ IsNaN(b) THEN NaN ELSE IF Less(b, a) THEN b ELSE a

MathMax(a, b) ==
  IF IsNaN(a) \/ IsNaN(b) THEN NaN ELSE IF Less(a, b) THEN b ELSE a

\* Math.pow(a, k) for a natural exponent k
RECURSIVE MathPow(_, _)
MathPow(a, k) == IF k = 0 THEN Num(1) ELSE Mul(a, MathPow(a, k - 1))


-----------------------------------------------------------------------------
(* Plate helpers and sample tables *)

Null == [n |-> 0, d |-> -2]

\* a ?? b : b when a is undefined or null
Coalesce(a, b) == IF a = Undefined \/ a = Null THEN b ELSE a

POISSON_MDF == R(30, 100)

PLATE_DEFLECTION_COEFF == R(4, 1000)

\* mutant: the thickness is squared, not cubed
plateFlexuralRigidity_squared(E_psi, t_in) ==
  Div(Mul(E_psi, MathPow(t_in, 2)),
      Mul(Num(12), Sub(Num(1), Mul(POISSON_MDF, POISSON_MDF))))

plateFlexuralRigidity(E_psi, t_in) ==
  Div(Mul(E_psi, MathPow(t_in, 3)),
      Mul(Num(12), Sub(Num(1), Mul(POISSON_MDF, POISSON_MDF))))

PLATE_SAMPLE_POINTS ==
  << [u |-> R(5, 100),  v |-> R(80, 100)],
     [u |-> R(1, 3),    v |-> R(80, 100)],
     [u |-> R(2, 3),    v |-> R(80, 100)],
     [u |-> R(95, 100), v |-> R(80, 100)],
     [u |-> R(15, 100), v |-> R(50, 100)],
     [u |-> R(85, 100), v |-> R(50, 100)],
     [u |-> R(5, 100),  v |-> R(20, 100)],
     [u |-> R(1, 3),    v |-> R(20, 100)],
     [u |-> R(2, 3),    v |-> R(20, 100)],
     [u |-> R(95, 100), v |-> R(20, 100)],
     [u |-> R(50, 100), v |-> R(50, 100)] >>

SHORT_SAMPLE_POINTS_5 ==
  << [u |-> R(5, 100),  v |-> R(10, 100)],
     [u |-> R(95, 100), v |-> R(10, 100)],
     [u |-> R(50, 100), v |-> R(50, 100)],
     [u |-> R(5, 100),  v |-> R(90, 100)],
     [u |-> R(95, 100), v |-> R(90, 100)] >>

\* Math.sin(Math.PI * x) at the sample coordinates, to the nearest 1/8
\* (exactly 1 at x = 1/2)
SinPiTable ==
  { <<R(50, 100), Num(1)>>,
    <<R(5, 100), R(1, 8)>>,  <<R(95, 100), R(1, 8)>>,
    <<R(10, 100), R(2, 8)>>, <<R(90, 100), R(2, 8)>>,
    <<R(15, 100), R(4, 8)>>, <<R(85, 100), R(4, 8)>>,
    <<R(20, 100), R(5, 8)>>, <<R(80, 100), R(5, 8)>>,
    <<R(1, 3), R(7, 8)>>,    <<R(2, 3), R(7, 8)>> }

SinPi(x) == (CHOOSE e \in SinPiTable : e[1] = x)[2]

\* mutant: the end index is ignored
Slice0_whole(s, end) == s

\* mutant: slice(-end), the last `end` entries instead of the first
Slice0_fromBack(s, end) ==
  LET e == end.n
      k == IF e < 0 THEN 0 ELSE IF e > Len(s) THEN Len(s) ELSE e
  IN SubSeq(s, Len(s) - k + 1, Len(s))

\* Array.prototype.slice(0, end) on a table of length Len(s)
\* (end is an integer-valued number; a negative end counts from the back)
Slice0(s, end) ==
  LET e == end.n
      k == IF e < 0 THEN (IF Len(s) + e < 0 THEN 0 ELSE Len(s) + e)
           ELSE IF e > Len(s) THEN Len(s) ELSE e
  IN SubSeq(s, 1, k)

-----------------------------------------------------------------------------
(* Beam formulas *)

beamDeflectionUniform(L, w, E, I) ==
  [M_max |-> Div(Mul(Mul(w, L), L), Num(8)),
   delta_max |-> Div(Mul(Mul(Num(5), w), MathPow(L, 4)),
                     Mul(Mul(Num(384), E), I))]

\* mutant: the last term of the polynomial is x^2 instead of x^3
beamDeflectionUniformAt_squared(L, w, E, I, x) ==
  Div(Mul(Mul(w, x),
          Add(Sub(MathPow(L, 3), Mul(Mul(Num(2), L), MathPow(x, 2))),
              MathPow(x, 2))),
      Mul(Mul(Num(24), E), I))

beamDeflectionUniformAt(L, w, E, I, x) ==
  Div(Mul(Mul(w, x),
          Add(Sub(MathPow(L, 3), Mul(Mul(Num(2), L), MathPow(x, 2))),
              MathPow(x, 3))),
      Mul(Mul(Num(24), E), I))

-----------------------------------------------------------------------------
(* Load derivation *)

\* mutant: the depth is used unclamped
h_water_unclamped(tub) == tub.water_freeboard_in

\* mutant: the clamp takes the larger of depth and height
h_water_max(tub) == MathMax(tub.water_freeboard_in, tub.H_tub_in)

\* const h_water = Math.min(tub.water_freeboard_in, tub.H_tub_in)
h_water(tub) == MathMin(tub.water_freeboard_in, tub.H_tub_in)

uniformLoadBottomStrip(tub, materials) ==
  LET gamma == materials.water.gamma_psi_per_in
      p_mid == Mul(gamma, Div(h_water(tub), Num(2)))
      b_strip == Num(1)
  IN Mul(p_mid, b_strip)

-----------------------------------------------------------------------------
(* MDF bottom deflection *)

\* mutant: the floor pressure of a brim-full tub, whatever the water depth
q_bottom_fullHeight(tub, materials) ==
  Mul(materials.water.gamma_psi_per_in, tub.H_tub_in)

\* const q_bottom = gamma * h_water
q_bottom(tub, materials) == Mul(materials.water.gamma_psi_per_in, h_water(tub))

\* mutant: the number of supports is raised to 1 instead of 2
panelLen_atLeastOne(tub) ==
  Div(tub.L_tub_in, Sub(MathMax(Num(1), tub.n_transverse), Num(1)))

\* mutant: the number of spans is not guarded against a single support
panelLen_unguarded(tub) == Div(tub.L_tub_in, Sub(tub.n_transverse, Num(1)))

\* mutant: the length is divided by the number of supports, not of spans
panelLen_perSupport(tub) ==
  Div(tub.L_tub_in, MathMax(Num(2), tub.n_transverse))

\* nPanels = Math.max(2, n_transverse); panelLen = L_tub_in / (nPanels - 1)
panelLen(tub) ==
  LET nPanels == MathMax(Num(2), tub.n_transverse)
  IN Div(tub.L_tub_in, Sub(nPanels, Num(1)))

\* mutant: the strip's moment of inertia is taken over the span width
mdfBottomDeflection_spanInertia(tub, materials) ==
  LET q == Mul(materials.water.gamma_psi_per_in,
               MathMin(tub.water_freeboard_in, tub.H_tub_in))
      len == Div(tub.L_tub_in, Sub(MathMax(Num(2), tub.n_transverse), Num(1)))
      a == MathMin(len, tub.W_tub_in)
      b == MathMax(len, tub.W_tub_in)
      t == tub.t_mdf_bottom_in
      D == Div(Mul(materials.mdf_extira.E_psi, MathPow(t, 3)), R(1092, 100))
      delta_max == Div(Mul(R(4, 1000), Mul(q, MathPow(a, 4))), D)
      w_line == Mul(q, b)
      I_beam == Div(Mul(a, MathPow(t, 3)), Num(12))
      M_max == Div(Mul(w_line, MathPow(a, 2)), Num(8))
      sigma_max == Div(Mul(M_max, Div(t, Num(2))), I_beam)
  IN [span |-> a, w_strip |-> w_line, M_max |-> M_max,
      delta_max |-> delta_max, sigma_max |-> sigma_max]

\* mutant: the strip load is taken over the span instead of the long side
mdfBottomDeflection_spanLoad(tub, materials) ==
  LET q == Mul(materials.water.gamma_psi_per_in,
               MathMin(tub.water_freeboard_in, tub.H_tub_in))
      len == Div(tub.L_tub_in, Sub(MathMax(Num(2), tub.n_transverse), Num(1)))
      a == MathMin(len, tub.W_tub_in)
      b == MathMax(len, tub.W_tub_in)
      t == tub.t_mdf_bottom_in
      D == Div(Mul(materials.mdf_extira.E_psi, MathPow(t, 3)), R(1092, 100))
      delta_max == Div(Mul(R(4, 1000), Mul(q, MathPow(a, 4))), D)
      w_line == Mul(q, a)
      I_beam == Div(Mul(b, MathPow(t, 3)), Num(12))
      M_max == Div(Mul(w_line, MathPow(a, 2)), Num(8))
      sigma_max == Div(Mul(M_max, Div(t, Num(2))), I_beam)
  IN [span |-> a, w_strip |-> w_line, M_max |-> M_max,
      delta_max |-> delta_max, sigma_max |-> sigma_max]

\* mutant: the side panel's thickness is read for the bottom panel
mdfBottomDeflection_sideThickness(tub, materials) ==
  LET q == Mul(materials.water.gamma_psi_per_in,
               MathMin(tub.water_freeboard_in, tub.H_tub_in))
      len == Div(tub.L_tub_in, Sub(MathMax(Num(2), tub.n_transverse), Num(1)))
      a == MathMin(len, tub.W_tub_in)
      b == MathMax(len, tub.W_tub_in)
      t == tub.t_mdf_side_in
      E == materials.mdf_extira.E_psi
      D == Div(Mul(E, MathPow(t, 3)), R(1092, 100))
      delta_max == Div(Mul(R(4, 1000), Mul(q, MathPow(a, 4))), D)
      w_line == Mul(q, b)
      I_beam == Div(Mul(b, MathPow(t, 3)), Num(12))
      M_max == Div(Mul(w_line, MathPow(a, 2)), Num(8))
      sigma_max == Div(Mul(M_max, Div(t, Num(2))), I_beam)
  IN [span |-> a, w_strip |-> w_line, M_max |-> M_max,
      delta_max |-> delta_max, sigma_max |-> sigma_max]

mdfBottomDeflection(tub, materials) ==
  LET q == q_bottom(tub, materials)
      a == MathMin(panelLen(tub), tub.W_tub_in)
      b == MathMax(panelLen(tub), tub.W_tub_in)
      t == tub.t_mdf_bottom_in
      E == materials.mdf_extira.E_psi
      D == plateFlexuralRigidity(E, t)
      delta_max == Div(Mul(PLATE_DEFLECTION_COEFF, Mul(q, MathPow(a, 4))), D)
      w_line == Mul(q, b)
      I_beam == Div(Mul(b, MathPow(t, 3)), Num(12))
      c == Div(t, Num(2))
      M_max == Div(Mul(w_line, MathPow(a, 2)), Num(8))
      sigma_max == Div(Mul(M_max, c), I_beam)
  IN [span |-> a, w_strip |-> w_line, M_max |-> M_max,
      delta_max |-> delta_max, sigma_max |-> sigma_max]

-----------------------------------------------------------------------------
(* Extrusion deflection *)

\* mutant: the clear span is measured along the frame's length
extrusionDeflection_frameLength(tub, frame, materials) ==
  LET L == Sub(frame.L_frame_in,
               Mul(Num(2), Div(frame.extr_size_mm, R(254, 10))))
      trib_L == Div(tub.L_tub_in, tub.n_transverse)
      p_avg == Mul(materials.water.gamma_psi_per_in,
                   Div(MathMin(tub.water_freeboard_in, tub.H_tub_in), Num(2)))
      w == Div(Mul(p_avg, Mul(trib_L, tub.W_tub_in)), L)
      beam == beamDeflectionUniform(L, w, materials.aluminum_2525.E_psi,
                                    materials.aluminum_2525.I_in4)
      sigma_max == Div(Mul(beam.M_max, materials.aluminum_2525.c_in),
                       materials.aluminum_2525.I_in4)
  IN [span |-> L, w |-> w, M_max |-> beam.M_max,
      delta_max |-> beam.delta_max, sigma_max |-> sigma_max]

\* mutant: the beam spans the tub width instead of the frame's clear span
extrusionDeflection_tubSpan(tub, frame, materials) ==
  LET L == tub.W_tub_in
      trib_L == Div(tub.L_tub_in, tub.n_transverse)
      p_avg == Mul(materials.water.gamma_psi_per_in,
                   Div(MathMin(tub.water_freeboard_in, tub.H_tub_in), Num(2)))
      w == Div(Mul(p_avg, Mul(trib_L, tub.W_tub_in)), L)
      beam == beamDeflectionUniform(L, w, materials.aluminum_2525.E_psi,
                                    materials.aluminum_2525.I_in4)
      sigma_max == Div(Mul(beam.M_max, materials.aluminum_2525.c_in),
                       materials.aluminum_2525.I_in4)
  IN [span |-> L, w |-> w, M_max |-> beam.M_max,
      delta_max |-> beam.delta_max, sigma_max |-> sigma_max]

extrusionDeflection(tub, frame, materials) ==
  LET extrSizeIn == Div(frame.extr_size_mm, R(254, 10))
      L == Sub(frame.W_frame_in, Mul(Num(2), extrSizeIn))
      trib_L == Div(tub.L_tub_in, tub.n_transverse)
      gamma == materials.water.gamma_psi_per_in
      p_avg == Mul(gamma, Div(h_water(tub), Num(2)))
      area == Mul(trib_L, tub.W_tub_in)
      total_load == Mul(p_avg, area)
      w == Div(total_load, L)
      beam == beamDeflectionUniform(L, w, materials.aluminum_2525.E_psi,
                                    materials.aluminum_2525.I_in4)
      sigma_max == Div(Mul(beam.M_max, materials.aluminum_2525.c_in),
                       materials.aluminum_2525.I_in4)
  IN [span |-> L, w |-> w, M_max |-> beam.M_max,
      delta_max |-> beam.delta_max, sigma_max |-> sigma_max]

-----------------------------------------------------------------------------
(* State: two invocations of the module's functions, each with its own     *)
(* arguments; ret[c] is what invocation c returned (NoCall until then),    *)
(* with the identity of the array it returned.  tables holds the current   *)
(* contents of the module-level arrays PLATE_SAMPLE_POINTS (plate) and     *)
(* SHORT_SAMPLE_POINTS_5 (short): const bindings of mutable arrays.        *)
(* nextArray is the identity the next array literal will get.              *)

VARIABLES arg, ret, tables, nextArray

-----------------------------------------------------------------------------
(* Deflection profiles *)

\* mutant: the two sine factors are added instead of multiplied
ProfilePoint_sum(p, len, w_max) ==
  [x_in |-> Mul(p.u, len),
   deflection_in |-> Mul(w_max, Add(SinPi(p.u), SinPi(p.v)))]

\* the loop body shared by the three profile functions:
\* x = u * len; shape = sin(pi u) sin(pi v); w = w_max * shape
ProfilePoint(p, len, w_max) ==
  [x_in |-> Mul(p.u, len),
   deflection_in |-> Mul(w_max, Mul(SinPi(p.u), SinPi(p.v)))]

\* mutant: every function defaults to the whole 11-point pattern
DefaultArg_wholePattern(nPoints, dflt) ==
  IF nPoints = Undefined THEN Num(11) ELSE nPoints

\* default parameter value: used when the argument is undefined
DefaultArg(nPoints, dflt) == IF nPoints = Undefined THEN dflt ELSE nPoints

\* mutant: the tub width is taken as the short side, whatever the panel length
bottomDeflection_w_max_width(tub, materials) ==
  LET q == Mul(materials.water.gamma_psi_per_in,
               MathMin(tub.water_freeboard_in, tub.H_tub_in))
      D == Div(Mul(materials.mdf_extira.E_psi, MathPow(tub.t_mdf_bottom_in, 3)),
               R(1092, 100))
  IN Div(Mul(R(4, 1000), Mul(q, MathPow(tub.W_tub_in, 4))), D)

bottomDeflection_w_max(tub, materials) ==
  LET q == q_bottom(tub, materials)
      a == MathMin(panelLen(tub), tub.W_tub_in)
      D == plateFlexuralRigidity(materials.mdf_extira.E_psi, tub.t_mdf_bottom_in)
  IN Div(Mul(PLATE_DEFLECTION_COEFF, Mul(q, MathPow(a, 4))), D)

bottomDeflectionProfile(tub, materials, nPoints) ==
  LET w_max == bottomDeflection_w_max(tub, materials)
      pts == Slice0(tables.plate, DefaultArg(nPoints, Num(10)))
  IN [i \in 1..Len(pts) |-> ProfilePoint(pts[i], tub.L_tub_in, w_max)]

\* mutant: the wall load is the hydrostatic resultant gamma * h^2 / 2
q_side_resultant(tub, materials) ==
  Mul(Mul(materials.water.gamma_psi_per_in,
          MathPow(MathMin(tub.water_freeboard_in, tub.H_tub_in), 2)),
      R(5, 10))

\* const q_side = gamma * h_water * 0.5
q_side(tub, materials) ==
  Mul(Mul(materials.water.gamma_psi_per_in, h_water(tub)), R(5, 10))

\* mutant: a count that is not positive is used as it is
postCount_unguarded(posts) == Coalesce(posts, Num(0))

\* nRaw = posts ?? 0; n = nRaw > 0 ? nRaw : 0
postCount(posts) ==
  LET nRaw == Coalesce(posts, Num(0))
  IN IF Greater(nRaw, Num(0)) THEN nRaw ELSE Num(0)

\* mutant: the walls use the closed form q a^4 / (64 D)
sideBase_w_max_closedForm(tub, materials) ==
  Div(Mul(q_side(tub, materials), MathPow(tub.H_tub_in, 4)),
      Mul(Num(64),
          plateFlexuralRigidity(materials.mdf_extira.E_psi, tub.t_mdf_side_in)))

\* the unscaled plate deflection of a wall: vertical span a = H_tub_in
sideBase_w_max(tub, materials) ==
  LET a == tub.H_tub_in
      D == plateFlexuralRigidity(materials.mdf_extira.E_psi, tub.t_mdf_side_in)
  IN Div(Mul(PLATE_DEFLECTION_COEFF,
             Mul(q_side(tub, materials), MathPow(a, 4))), D)

\* mutant: the posts are ignored
shortSide_w_max_unscaled(tub, materials) ==
  Div(Mul(R(4, 1000),
          Mul(Mul(Mul(materials.water.gamma_psi_per_in,
                      MathMin(tub.water_freeboard_in, tub.H_tub_in)), R(5, 10)),
              MathPow(tub.H_tub_in, 4))),
      Div(Mul(materials.mdf_extira.E_psi, MathPow(tub.t_mdf_side_in, 3)),
          R(1092, 100)))

\* mutant: the width ratio is cubed
shortSide_w_max_cubed(tub, materials) ==
  LET nShort == postCount(tub.n_short_side_posts)
      b_panel == Div(tub.W_tub_in, Add(nShort, Num(1)))
  IN Mul(shortSide_w_max_unscaled(tub, materials),
         MathPow(Div(b_panel, tub.W_tub_in), 3))

shortSide_w_max(tub, materials) ==
  LET b_full == tub.W_tub_in
      nShort == postCount(tub.n_short_side_posts)
      b_panel == Div(b_full, Add(nShort, Num(1)))
      base == sideBase_w_max(tub, materials)
  IN IF Greater(b_full, Num(0))
       THEN Mul(base, MathPow(Div(b_panel, b_full), 4))
       ELSE base

\* mutant: the long wall's panel is measured against the short wall's width
longSide_w_max_shortWidth(tub, materials) ==
  LET nRaw == Coalesce(tub.n_long_side_posts, Num(0))
      nLong == IF Greater(nRaw, Num(0)) THEN nRaw ELSE Num(0)
      b_panel == Div(tub.L_tub_in, Add(nLong, Num(1)))
  IN Mul(Div(Mul(R(4, 1000),
                 Mul(Mul(Mul(materials.water.gamma_psi_per_in,
                             MathMin(tub.water_freeboard_in, tub.H_tub_in)),
                         R(5, 10)),
                     MathPow(tub.H_tub_in, 4))),
             Div(Mul(materials.mdf_extira.E_psi, MathPow(tub.t_mdf_side_in, 3)),
                 R(1092, 100))),
         MathPow(Div(b_panel, tub.W_tub_in), 4))

longSide_w_max(tub, materials) ==
  LET b_full == tub.L_tub_in
      nLong == postCount(tub.n_long_side_posts)
      b_panel == Div(b_full, Add(nLong, Num(1)))
      base == sideBase_w_max(tub, materials)
  IN IF Greater(b_full, Num(0))
       THEN Mul(base, MathPow(Div(b_panel, b_full), 4))
       ELSE base

\* mutant: the samples are laid along one panel between posts
shortSideDeflectionProfile_panelPositions(tub, materials, nPoints) ==
  LET nRaw == Coalesce(tub.n_short_side_posts, Num(0))
      nShort == IF Greater(nRaw, Num(0)) THEN nRaw ELSE Num(0)
      b_panel == Div(tub.W_tub_in, Add(nShort, Num(1)))
      w_max == shortSide_w_max(tub, materials)
      e == IF nPoints = Undefined THEN 5 ELSE nPoints.n
      k == IF e < 0 THEN (IF 5 + e < 0 THEN 0 ELSE 5 + e)
           ELSE IF e > 5 THEN 5 ELSE e
  IN [i \in 1..k |->
        [x_in |-> Mul(tables.short[i].u, b_panel),
         deflection_in |->
           Mul(w_max, Mul(SinPi(tables.short[i].u), SinPi(tables.short[i].v)))]]

shortSideDeflectionProfile(tub, materials, nPoints) ==
  LET b_full == tub.W_tub_in
      w_max == shortSide_w_max(tub, materials)
      pts == Slice0(tables.short, DefaultArg(nPoints, Num(5)))
  IN [i \in 1..Len(pts) |-> ProfilePoint(pts[i], b_full, w_max)]

longSideDeflectionProfile(tub, materials, nPoints) ==
  LET b_full == tub.L_tub_in
      w_max == longSide_w_max(tub, materials)
      pts == Slice0(tables.plate, DefaultArg(nPoints, Num(11)))
  IN [i \in 1..Len(pts) |-> ProfilePoint(pts[i], b_full, w_max)]

-----------------------------------------------------------------------------
(* Inputs *)

MaxLen == 4          \* L_tub_in ranges over 1..MaxLen
MaxWid == 3          \* W_tub_in ranges over 1..MaxWid
MaxHgt == 3          \* H_tub_in ranges over 1..MaxHgt
MaxDepth == 4        \* water_freeboard_in ranges over -1..MaxDepth
MaxThick == 3        \* panel thickness ranges over 2/4 .. MaxThick/4
MaxTransverse == 3   \* n_transverse ranges over 0..MaxTransverse
MaxPosts == 2        \* post counts: undefined, null, -1, 0..MaxPosts
MaxPoints == 12      \* nPoints: undefined, -1, 0..MaxPoints
MaxGamma == 2        \* gamma ranges over 1..MaxGamma
MaxModulus == 2      \* moduli range over 1..MaxModulus
MaxFrame == 3        \* frame dimensions range over 2..MaxFrame
MaxExtr == 2         \* extr_size_mm ranges over 12.7 .. 12.7*MaxExtr

Lens == {Num(k) : k \in 1..MaxLen}
Wids == {Num(k) : k \in 1..MaxWid}
Hgts == {Num(k) : k \in 1..MaxHgt}
Depths == {Num(k) : k \in (-1)..MaxDepth}
Thicks == {R(k, 4) : k \in 2..MaxThick}
Transverses == {Num(k) : k \in 0..MaxTransverse}
Posts == {Undefined, Null} \cup {Num(k) : k \in (-1)..MaxPosts}
PointCounts == {Undefined} \cup {Num(k) : k \in (-1)..MaxPoints}
Gammas == {Num(k) : k \in 1..MaxGamma}
Moduli == {Num(k) : k \in 1..MaxModulus}
FrameDims == {Num(k) : k \in 2..MaxFrame}
ExtrSizes == {R(127 * k, 10) : k \in 1..MaxExtr}

Tub(L, W, H, tb, ts, wf, nT, nL, nS) ==
  [L_tub_in |-> L, W_tub_in |-> W, H_tub_in |-> H,
   t_mdf_bottom_in |-> tb, t_mdf_side_in |-> ts,
   water_freeboard_in |-> wf, n_transverse |-> nT,
   n_long_side_posts |-> nL, n_short_side_posts |-> nS]

Materials(gamma, E_mdf, E_al, I, c) ==
  [water |-> [gamma_psi_per_in |-> gamma],
   mdf_extira |-> [E_psi |-> E_mdf],
   aluminum_2525 |-> [E_psi |-> E_al, I_in4 |-> I, c_in |-> c]]

Frame(L, W, H, extr) ==
  [L_frame_in |-> L, W_frame_in |-> W, H_frame_in |-> H, extr_size_mm |-> extr]

\* the arguments of one invocation
Args(tub, frame, materials, nPoints) ==
  [tub |-> tub, frame |-> frame, materials |-> materials, nPoints |-> nPoints]

\* the worked example: tub 60 x 30 x 24 in, t = 0.75 in, E = 400000 psi,
\* gamma = 0.0361 psi/in, depth 20 in, 3 transverse supports
ExampleArgs ==
  Args(Tub(Num(60), Num(30), Num(24), R(3, 4), R(3, 4), Num(20), Num(3),
           Undefined, Undefined),
       Frame(Num(62), Num(32), Num(26), R(254, 10)),
       Materials(R(361, 10000), Num(400000), Num(100), Num(1), Num(1)),
       Undefined)

\* base configurations (a part-filled tub, an empty one and an over-filled
\* one); every field is then varied over its whole range
BaseArgs ==
  { Args(Tub(Num(4), Num(2), Num(3), R(2, 4), R(2, 4), Num(2), Num(3),
             Num(0), Num(0)),
         Frame(Num(3), Num(3), Num(3), R(127, 10)),
         Materials(Num(1), Num(1), Num(1), Num(1), Num(1)),
         Num(11)),
    Args(Tub(Num(2), Num(3), Num(2), R(3, 4), R(2, 4), Num(0), Num(2),
             Num(1), Num(2)),
         Frame(Num(2), Num(3), Num(2), R(254, 10)),
         Materials(Num(2), Num(2), Num(2), Num(1), Num(1)),
         Undefined),
    Args(Tub(Num(3), Num(1), Num(2), R(2, 4), R(3, 4), Num(3), Num(1),
             Undefined, Num(1)),
         Frame(Num(3), Num(2), Num(2), R(127, 10)),
         Materials(Num(1), Num(2), Num(1), Num(1), Num(1)),
         Num(5)) }

\* pairs of argument records that differ from a base configuration, and
\* from each other, in one field only (all else equal)
VariantPairs(a) ==
  {<<[a EXCEPT !.tub.L_tub_in = v], [a EXCEPT !.tub.L_tub_in = w]>> :
      v \in Lens, w \in Lens}
  \cup {<<[a EXCEPT !.tub.W_tub_in = v], [a EXCEPT !.tub.W_tub_in = w]>> :
      v \in Wids, w \in Wids}
  \cup {<<[a EXCEPT !.tub.H_tub_in = v], [a EXCEPT !.tub.H_tub_in = w]>> :
      v \in Hgts, w \in Hgts}
  \cup {<<[a EXCEPT !.tub.t_mdf_bottom_in = v],
          [a EXCEPT !.tub.t_mdf_bottom_in = w]>> : v \in Thicks, w \in Thicks}
  \cup {<<[a EXCEPT !.tub.t_mdf_side_in = v],
          [a EXCEPT !.tub.t_mdf_side_in = w]>> : v \in Thicks, w \in Thicks}
  \cup {<<[a EXCEPT !.tub.water_freeboard_in = v],
          [a EXCEPT !.tub.water_freeboard_in = w]>> : v \in Depths, w \in Depths}
  \cup {<<[a EXCEPT !.tub.n_transverse = v],
          [a EXCEPT !.tub.n_transverse = w]>> :
      v \in Transverses, w \in Transverses}
  \cup {<<[a EXCEPT !.tub.n_long_side_posts = v],
          [a EXCEPT !.tub.n_long_side_posts = w]>> : v \in Posts, w \in Posts}
  \cup {<<[a EXCEPT !.tub.n_short_side_posts = v],
          [a EXCEPT !.tub.n_short_side_posts = w]>> : v \in Posts, w \in Posts}
  \cup {<<[a EXCEPT !.frame.L_frame_in = v],
          [a EXCEPT !.frame.L_frame_in = w]>> : v \in FrameDims, w \in FrameDims}
  \cup {<<[a EXCEPT !.frame.W_frame_in = v],
          [a EXCEPT !.frame.W_frame_in = w]>> : v \in FrameDims, w \in FrameDims}
  \cup {<<[a EXCEPT !.frame.H_frame_in = v],
          [a EXCEPT !.frame.H_frame_in = w]>> : v \in FrameDims, w \in FrameDims}
  \cup {<<[a EXCEPT !.frame.extr_size_mm = v],
          [a EXCEPT !.frame.extr_size_mm = w]>> : v \in ExtrSizes, w \in ExtrSizes}
  \cup {<<[a EXCEPT !.materials.water.gamma_psi_per_in = v],
          [a EXCEPT !.materials.water.gamma_psi_per_in = w]>> :
      v \in Gammas, w \in Gammas}
  \cup {<<[a EXCEPT !.materials.mdf_extira.E_psi = v],
          [a EXCEPT !.materials.mdf_extira.E_psi = w]>> : v \in Moduli, w \in Moduli}
  \cup {<<[a EXCEPT !.materials.aluminum_2525.E_psi = v],
          [a EXCEPT !.materials.aluminum_2525.E_psi = w]>> :
      v \in Moduli, w \in Moduli}
  \* (each unordered pair of point counts once; Undefined sorts as 0)
  \cup {<<[a EXCEPT !.nPoints = p[1]], [a EXCEPT !.nPoints = p[2]]>> :
      p \in {q \in PointCounts \X PointCounts : q[1].n <= q[2].n}}

\* pairs that differ in the bottom thickness only, the second twice the first
DoublingPairs(a) ==
  {<<[a EXCEPT !.tub.t_mdf_bottom_in = v],
     [a EXCEPT !.tub.t_mdf_bottom_in = Mul(Num(2), v)]>> : v \in Thicks}

\* a part-filled tub with one post on each wall
PostedArgs ==
  Args(Tub(Num(4), Num(3), Num(3), R(2, 4), R(2, 4), Num(2), Num(3),
           Num(1), Num(1)),
       Frame(Num(3), Num(3), Num(3), R(127, 10)),
       Materials(Num(1), Num(1), Num(1), Num(1), Num(1)),
       Num(11))

\* pairs in which the first has its width set and the second its length, and
\* pairs that differ in the number of transverse supports only
DimensionPairs(a) ==
  {<<[a EXCEPT !.tub.W_tub_in = v], [a EXCEPT !.tub.L_tub_in = w]>> :
      v \in Wids, w \in Lens}
  \cup {<<[a EXCEPT !.tub.n_transverse = v],
          [a EXCEPT !.tub.n_transverse = w]>> :
      v \in Transverses, w \in Transverses}

\* the argument pairs the two invocations are given
ArgPairs ==
  UNION {VariantPairs(a) \cup DoublingPairs(a) : a \in BaseArgs}
  \cup {<<ExampleArgs, ExampleArgs>>,
        <<ExampleArgs, [ExampleArgs EXCEPT !.tub.t_mdf_bottom_in = R(3, 2)]>>}

-----------------------------------------------------------------------------
(* Invocations *)

vars == <<arg, ret, tables, nextArray>>

Calls == {1, 2}

\* array identities: the two module-level tables, and no array at all
PlateTableId == 1
ShortTableId == 2
NotArray == 0

NoCall == [fn |-> "none", value |-> Undefined, array |-> NotArray]

\* the module as loaded: both tables hold their literals
TablesLoaded ==
  [plate |-> PLATE_SAMPLE_POINTS, short |-> SHORT_SAMPLE_POINTS_5]

FirstNewArray == 3

Init ==
  /\ \E p \in ArgPairs : arg = [c \in Calls |-> p[c]]
  /\ ret = [c \in Calls |-> NoCall]
  /\ tables = TablesLoaded
  /\ nextArray = FirstNewArray

ProfileFns ==
  {"bottomDeflectionProfile", "shortSideDeflectionProfile",
   "longSideDeflectionProfile"}

MaxArrays == 5       \* array identities run up to MaxArrays

\* invocation c, not yet returned, returns `value` from function `fn`;
\* a profile is returned in the array that `const result = []` created
Returns(c, fn, value) ==
  /\ ret[c] = NoCall
  /\ IF fn \in ProfileFns
       THEN /\ nextArray <= MaxArrays
            /\ ret' = [ret EXCEPT ![c] =
                         [fn |-> fn, value |-> value, array |-> nextArray]]
            /\ nextArray' = nextArray + 1
       ELSE /\ ret' = [ret EXCEPT ![c] =
                         [fn |-> fn, value |-> value, array |-> NotArray]]
            /\ UNCHANGED nextArray
  /\ UNCHANGED <<arg, tables>>

Call_uniformLoadBottomStrip(c) ==
  Returns(c, "uniformLoadBottomStrip",
          uniformLoadBottomStrip(arg[c].tub, arg[c].materials))

Call_mdfBottomDeflection(c) ==
  Returns(c, "mdfBottomDeflection",
          mdfBottomDeflection(arg[c].tub, arg[c].materials))

Call_extrusionDeflection(c) ==
  Returns(c, "extrusionDeflection",
          extrusionDeflection(arg[c].tub, arg[c].frame, arg[c].materials))

\* mutant: the samples are taken with splice(0, nPoints), which removes them
\* from the module-level table
Call_bottomDeflectionProfile_splice(c) ==
  LET taken == Slice0(tables.plate, DefaultArg(arg[c].nPoints, Num(10)))
  IN /\ ret[c] = NoCall
     /\ nextArray <= MaxArrays
     /\ ret' = [ret EXCEPT ![c] =
                  [fn |-> "bottomDeflectionProfile",
                   value |-> bottomDeflectionProfile(arg[c].tub, arg[c].materials, arg[c].nPoints),
                   array |-> nextArray]]
     /\ nextArray' = nextArray + 1
     /\ tables' = [tables EXCEPT !.plate =
                     SubSeq(tables.plate, Len(taken) + 1, Len(tables.plate))]
     /\ UNCHANGED arg

Call_bottomDeflectionProfile(c) ==
  Returns(c, "bottomDeflectionProfile",
          bottomDeflectionProfile(arg[c].tub, arg[c].materials, arg[c].nPoints))

\* mutant: splice(0, nPoints) on the short-side table
Call_shortSideDeflectionProfile_splice(c) ==
  LET taken == Slice0(tables.short, DefaultArg(arg[c].nPoints, Num(5)))
  IN /\ ret[c] = NoCall
     /\ nextArray <= MaxArrays
     /\ ret' = [ret EXCEPT ![c] =
                  [fn |-> "shortSideDeflectionProfile",
                   value |-> shortSideDeflectionProfile(arg[c].tub, arg[c].materials, arg[c].nPoints),
                   array |-> nextArray]]
     /\ nextArray' = nextArray + 1
     /\ tables' = [tables EXCEPT !.short =
                     SubSeq(tables.short, Len(taken) + 1, Len(tables.short))]
     /\ UNCHANGED arg

Call_shortSideDeflectionProfile(c) ==
  Returns(c, "shortSideDeflectionProfile",
          shortSideDeflectionProfile(arg[c].tub, arg[c].materials, arg[c].nPoints))

\* mutant: splice(0, nPoints) on the shared plate table
Call_longSideDeflectionProfile_splice(c) ==
  LET taken == Slice0(tables.plate, DefaultArg(arg[c].nPoints, Num(11)))
  IN /\ ret[c] = NoCall
     /\ nextArray <= MaxArrays
     /\ ret' = [ret EXCEPT ![c] =
                  [fn |-> "longSideDeflectionProfile",
                   value |-> longSideDeflectionProfile(arg[c].tub, arg[c].materials, arg[c].nPoints),
                   array |-> nextArray]]
     /\ nextArray' = nextArray + 1
     /\ tables' = [tables EXCEPT !.plate =
                     SubSeq(tables.plate, Len(taken) + 1, Len(tables.plate))]
     /\ UNCHANGED arg

Call_longSideDeflectionProfile(c) ==
  Returns(c, "longSideDeflectionProfile",
          longSideDeflectionProfile(arg[c].tub, arg[c].materials, arg[c].nPoints))

Next ==
  \E c \in Calls :
    \/ Call_uniformLoadBottomStrip(c)
    \/ Call_mdfBottomDeflection(c)
    \/ Call_extrusionDeflection(c)
    \/ Call_bottomDeflectionProfile(c)
    \/ Call_shortSideDeflectionProfile(c)
    \/ Call_longSideDeflectionProfile(c)

Spec == Init /\ [][Next]_vars

-----------------------------------------------------------------------------
(* The calculators after the tub's plan was edited: the argument pairs of  *)
(* Init, and pairs that differ in width and length together.               *)

InitDimensions ==
  /\ \E p \in ArgPairs \cup DimensionPairs(PostedArgs) :
       arg = [c \in Calls |-> p[c]]
  /\ ret = [c \in Calls |-> NoCall]
  /\ tables = TablesLoaded
  /\ nextArray = FirstNewArray

SpecDimensions == InitDimensions /\ [][Next]_vars

-----------------------------------------------------------------------------
(* The exported beam formulas, called on their own *)

MaxBeamLen == 3      \* beam span L ranges over 1..MaxBeamLen
MaxBeamLoad == 2     \* line load w ranges over -1..MaxBeamLoad
MaxInertia == 2      \* moment of inertia I ranges over 1/2 .. MaxInertia/2

BeamLens == {Num(k) : k \in 1..MaxBeamLen}
BeamLoads == {Num(k) : k \in (-1)..MaxBeamLoad}
Inertias == {R(k, 2) : k \in 1..MaxInertia}

BeamArgs(L, w, E, I, x) == [L |-> L, w |-> w, E |-> E, I |-> I, x |-> x]

\* two invocations on the same beam, each at a position of its own among
\* 0, L/4, L/2, 3L/4, L
BeamArgPairs ==
  {<<BeamArgs(b[1], b[2], b[3], b[4], Mul(R(k[1], 4), b[1])),
     BeamArgs(b[1], b[2], b[3], b[4], Mul(R(k[2], 4), b[1]))>> :
     b \in BeamLens \X BeamLoads \X Moduli \X Inertias,
     k \in (0..4) \X (0..4)}

InitBeam ==
  /\ \E p \in BeamArgPairs : arg = [c \in Calls |-> p[c]]
  /\ ret = [c \in Calls |-> NoCall]
  /\ tables = TablesLoaded
  /\ nextArray = FirstNewArray

Call_beamDeflectionUniform(c) ==
  Returns(c, "beamDeflectionUniform",
          beamDeflectionUniform(arg[c].L, arg[c].w, arg[c].E, arg[c].I))

Call_beamDeflectionUniformAt(c) ==
  Returns(c, "beamDeflectionUniformAt",
          beamDeflectionUniformAt(arg[c].L, arg[c].w, arg[c].E, arg[c].I, arg[c].x))

NextBeam ==
  \E c \in Calls :
    \/ Call_beamDeflectionUniform(c)
    \/ Call_beamDeflectionUniformAt(c)

SpecBeam == InitBeam /\ [][NextBeam]_vars

-----------------------------------------------------------------------------
(* A session: the page calls the calculators again after each change of    *)
(* its inputs, dropping the results of the render before.                  *)

\* the inputs a session moves between: a tub, the same tub with another
\* point count, with another frame, and a different tub
SessionArgs ==
  LET a == Args(Tub(Num(4), Num(2), Num(3), R(2, 4), R(2, 4), Num(2), Num(3),
                    Num(0), Num(0)),
                Frame(Num(3), Num(3), Num(3), R(127, 10)),
                Materials(Num(1), Num(1), Num(1), Num(1), Num(1)),
                Num(11))
  IN { a,
       [a EXCEPT !.nPoints = Num(3)],
       [a EXCEPT !.frame.W_frame_in = Num(2)],
       [a EXCEPT !.tub.L_tub_in = Num(3), !.tub.n_short_side_posts = Num(1)] }

InitSession ==
  /\ arg \in [Calls -> SessionArgs]
  /\ ret = [c \in Calls |-> NoCall]
  /\ tables = TablesLoaded
  /\ nextArray = FirstNewArray

\* the result of invocation c is dropped and the calculators are about to
\* be called with the arguments a
NextInvocation(c, a) ==
  /\ ret[c] # NoCall
  /\ ret' = [ret EXCEPT ![c] = NoCall]
  /\ arg' = [arg EXCEPT ![c] = a]
  /\ UNCHANGED <<tables, nextArray>>

NextSession ==
  \/ Next
  \/ \E c \in Calls, a \in SessionArgs : NextInvocation(c, a)

SpecSession == InitSession /\ [][NextSession]_vars

-----------------------------------------------------------------------------
(* Vocabulary of the properties *)

IsNumber(x) == x.d >= 0

Zero == Num(0)

\* invocations c1 and c2 have both returned, from the same function
SameFn(c1, c2) == ret[c1].fn # "none" /\ ret[c1].fn = ret[c2].fn

Returned(c, fn) == ret[c].fn = fn

\* a and b agree on every argument except possibly the named one
EqualButDepth(a, b) ==
  [a EXCEPT !.tub.water_freeboard_in = b.tub.water_freeboard_in] = b

EqualButBottomThickness(a, b) ==
  [a EXCEPT !.tub.t_mdf_bottom_in = b.tub.t_mdf_bottom_in] = b

EqualButTransverse(a, b) ==
  [a EXCEPT !.tub.n_transverse = b.tub.n_transverse] = b

EqualButShortPosts(a, b) ==
  [a EXCEPT !.tub.n_short_side_posts = b.tub.n_short_side_posts] = b

EqualButLongPosts(a, b) ==
  [a EXCEPT !.tub.n_long_side_posts = b.tub.n_long_side_posts] = b

WallFns == {"shortSideDeflectionProfile", "longSideDeflectionProfile"}

\* the post-count field a wall profile function reads
WallPosts(fn, a) ==
  IF fn = "shortSideDeflectionProfile"
    THEN a.tub.n_short_side_posts ELSE a.tub.n_long_side_posts

EqualButWallPosts(fn, a, b) ==
  IF fn = "shortSideDeflectionProfile"
    THEN EqualButShortPosts(a, b) ELSE EqualButLongPosts(a, b)

\* the sample table a profile function walks
SampleTable(fn) ==
  IF fn = "shortSideDeflectionProfile"
    THEN SHORT_SAMPLE_POINTS_5 ELSE PLATE_SAMPLE_POINTS

\* every field of a summary result is a finite number
AllFinite(r) ==
  /\ IsFinite(r.span) /\ IsFinite(r.M_max)
  /\ IsFinite(r.delta_max) /\ IsFinite(r.sigma_max)

-----------------------------------------------------------------------------
(* C1: a calculator called with water_freeboard_in > H_tub_in returns what *)
(* it returns with water_freeboard_in = H_tub_in, all other inputs equal   *)
(* (every one of the six calculators).                                     *)
C1_DepthClampIdentical ==
  \A c1 \in Calls, c2 \in Calls :
    ( /\ SameFn(c1, c2)
      /\ EqualButDepth(arg[c1], arg[c2])
      /\ Greater(arg[c1].tub.water_freeboard_in, arg[c1].tub.H_tub_in)
      /\ arg[c2].tub.water_freeboard_in = arg[c2].tub.H_tub_in )
    => ret[c1].value = ret[c2].value

C1_Witness ==
  /\ Returned(1, "extrusionDeflection") /\ Returned(2, "extrusionDeflection")
  /\ EqualButDepth(arg[1], arg[2])
  /\ Greater(arg[1].tub.water_freeboard_in, arg[1].tub.H_tub_in)
  /\ arg[2].tub.water_freeboard_in = arg[2].tub.H_tub_in
  /\ IsFinite(ret[1].value.delta_max)
  /\ Greater(ret[1].value.delta_max, Zero)
  /\ ret[1].value = ret[2].value

(* C2: the effective water depth h = min(water_freeboard_in, H_tub_in) is  *)
(* a number that never exceeds H_tub_in, and for water depth >= 0 and      *)
(* gamma > 0 the pressures q_bottom = gamma*h and q_side = gamma*h/2, and  *)
(* the loads returned from them, are never negative.                       *)
C2_ClampedDepthAndPressures ==
  \A c \in Calls :
    ret[c] # NoCall =>
      LET t == arg[c].tub
          m == arg[c].materials
          gamma == m.water.gamma_psi_per_in
          nonneg == Leq(Zero, t.water_freeboard_in) /\ Greater(gamma, Zero)
      IN /\ IsFinite(h_water(t))
         /\ Leq(h_water(t), t.H_tub_in)
         /\ nonneg => /\ Leq(Zero, q_bottom(t, m))
                      /\ Leq(Zero, q_side(t, m))
         /\ (nonneg /\ Returned(c, "uniformLoadBottomStrip")) =>
               /\ Leq(Zero, ret[c].value)
               /\ Leq(ret[c].value, Mul(gamma, Mul(t.H_tub_in, R(1, 2))))
         /\ (nonneg /\ Returned(c, "mdfBottomDeflection")) =>
               /\ Leq(Zero, ret[c].value.w_strip)
               /\ Leq(Zero, ret[c].value.delta_max)

C2_Witness ==
  /\ Returned(1, "uniformLoadBottomStrip")
  /\ Greater(arg[1].tub.water_freeboard_in, arg[1].tub.H_tub_in)
  /\ h_water(arg[1].tub) = arg[1].tub.H_tub_in
  /\ ret[1].value = Mul(arg[1].materials.water.gamma_psi_per_in,
                        Mul(arg[1].tub.H_tub_in, R(1, 2)))
  /\ Greater(ret[1].value, Zero)

(* C3 as stated: for all valid geometries and materials, if t1 < t2 are    *)
(* two values of t_mdf_bottom_in and everything else is equal,             *)
(* mdfBottomDeflection returns strictly smaller delta_max and sigma_max    *)
(* for t2 than for t1.                                                     *)
C3_ThicknessMonotone_AsStated ==
  \A c1 \in Calls, c2 \in Calls :
    ( /\ Returned(c1, "mdfBottomDeflection")
      /\ Returned(c2, "mdfBottomDeflection")
      /\ EqualButBottomThickness(arg[c1], arg[c2])
      /\ Less(arg[c1].tub.t_mdf_bottom_in, arg[c2].tub.t_mdf_bottom_in) )
    => /\ Less(ret[c2].value.delta_max, ret[c1].value.delta_max)
       /\ Less(ret[c2].value.sigma_max, ret[c1].value.sigma_max)

(* C3 (amended): the same, for tubs whose water depth is greater than 0:   *)
(* with no water both delta_max and sigma_max are 0 for every thickness.   *)
C3_ThicknessMonotone ==
  \A c1 \in Calls, c2 \in Calls :
    ( /\ Returned(c1, "mdfBottomDeflection")
      /\ Returned(c2, "mdfBottomDeflection")
      /\ EqualButBottomThickness(arg[c1], arg[c2])
      /\ Less(arg[c1].tub.t_mdf_bottom_in, arg[c2].tub.t_mdf_bottom_in)
      /\ Greater(arg[c1].tub.water_freeboard_in, Zero) )
    => /\ Less(ret[c2].value.delta_max, ret[c1].value.delta_max)
       /\ Less(ret[c2].value.sigma_max, ret[c1].value.sigma_max)

C3_Witness ==
  /\ Returned(1, "mdfBottomDeflection") /\ Returned(2, "mdfBottomDeflection")
  /\ EqualButBottomThickness(arg[1], arg[2])
  /\ Less(arg[1].tub.t_mdf_bottom_in, arg[2].tub.t_mdf_bottom_in)
  /\ Greater(arg[1].tub.water_freeboard_in, Zero)
  /\ Greater(ret[2].value.delta_max, Zero)
  /\ Less(ret[2].value.delta_max, ret[1].value.delta_max)
  /\ Less(ret[2].value.sigma_max, ret[1].value.sigma_max)

(* C4: if h1 < h2 < H_tub_in are two water depths and everything else is   *)
(* equal, mdfBottomDeflection returns strictly larger delta_max and        *)
(* strictly larger sigma_max for h2 than for h1.                           *)
C4_DepthMonotone ==
  \A c1 \in Calls, c2 \in Calls :
    ( /\ Returned(c1, "mdfBottomDeflection")
      /\ Returned(c2, "mdfBottomDeflection")
      /\ EqualButDepth(arg[c1], arg[c2])
      /\ Less(arg[c1].tub.water_freeboard_in, arg[c2].tub.water_freeboard_in)
      /\ Less(arg[c2].tub.water_freeboard_in, arg[c2].tub.H_tub_in) )
    => /\ Less(ret[c1].value.delta_max, ret[c2].value.delta_max)
       /\ Less(ret[c1].value.sigma_max, ret[c2].value.sigma_max)

C4_Witness ==
  /\ Returned(1, "mdfBottomDeflection") /\ Returned(2, "mdfBottomDeflection")
  /\ EqualButDepth(arg[1], arg[2])
  /\ Less(Zero, arg[1].tub.water_freeboard_in)
  /\ Less(arg[1].tub.water_freeboard_in, arg[2].tub.water_freeboard_in)
  /\ Less(arg[2].tub.water_freeboard_in, arg[2].tub.H_tub_in)
  /\ Less(Zero, ret[1].value.delta_max)
  /\ Less(ret[1].value.delta_max, ret[2].value.delta_max)
  /\ Less(ret[1].value.sigma_max, ret[2].value.sigma_max)

(* C5: for the short wall (n_short_side_posts) and the long wall           *)
(* (n_long_side_posts), with positive geometry and water depth > 0, the    *)
(* deflection at every sample point is strictly decreasing in the post     *)
(* count: from 0 to any n > 0, and from any n1 >= 0 to any n2 > n1.        *)
C5_PostsStiffen ==
  \A c1 \in Calls, c2 \in Calls :
    ( /\ SameFn(c1, c2)
      /\ ret[c1].fn \in WallFns
      /\ EqualButWallPosts(ret[c1].fn, arg[c1], arg[c2])
      /\ IsNumber(WallPosts(ret[c1].fn, arg[c1]))
      /\ IsNumber(WallPosts(ret[c1].fn, arg[c2]))
      /\ Leq(Zero, WallPosts(ret[c1].fn, arg[c1]))
      /\ Less(WallPosts(ret[c1].fn, arg[c1]), WallPosts(ret[c1].fn, arg[c2]))
      /\ Greater(arg[c1].tub.water_freeboard_in, Zero) )
    => /\ Len(ret[c1].value) = Len(ret[c2].value)
       /\ \A i \in 1..Len(ret[c1].value) :
            Less(ret[c2].value[i].deflection_in, ret[c1].value[i].deflection_in)

C5_Witness ==
  /\ Returned(1, "longSideDeflectionProfile")
  /\ Returned(2, "longSideDeflectionProfile")
  /\ EqualButLongPosts(arg[1], arg[2])
  /\ arg[1].tub.n_long_side_posts = Num(1)
  /\ arg[2].tub.n_long_side_posts = Num(2)
  /\ Greater(arg[1].tub.water_freeboard_in, Zero)
  /\ Len(ret[1].value) = 11
  /\ \A i \in 1..11 :
       /\ Less(Zero, ret[2].value[i].deflection_in)
       /\ Less(ret[2].value[i].deflection_in, ret[1].value[i].deflection_in)

(* C6: for each wall profile function and every post count n >= 0, the    *)
(* deflection at every sample point with n posts equals the deflection at  *)
(* the same point with 0 posts multiplied by (1/(n+1))^4; the short wall   *)
(* with 2 posts gives 1/81 of the 0-post deflection.                       *)
C6_FourthPowerPostScaling ==
  \A c1 \in Calls, c2 \in Calls :
    ( /\ SameFn(c1, c2)
      /\ ret[c1].fn \in WallFns
      /\ EqualButWallPosts(ret[c1].fn, arg[c1], arg[c2])
      /\ WallPosts(ret[c1].fn, arg[c1]) = Zero
      /\ IsNumber(WallPosts(ret[c1].fn, arg[c2]))
      /\ Leq(Zero, WallPosts(ret[c1].fn, arg[c2])) )
    => LET n == WallPosts(ret[c1].fn, arg[c2])
           factor == MathPow(Div(Num(1), Add(n, Num(1))), 4)
       IN /\ Len(ret[c1].value) = Len(ret[c2].value)
          /\ (n = Num(2) => factor = R(1, 81))
          /\ \A i \in 1..Len(ret[c1].value) :
               ret[c2].value[i].deflection_in =
                 Mul(ret[c1].value[i].deflection_in, factor)

C6_Witness ==
  /\ Returned(1, "shortSideDeflectionProfile")
  /\ Returned(2, "shortSideDeflectionProfile")
  /\ EqualButShortPosts(arg[1], arg[2])
  /\ arg[1].tub.n_short_side_posts = Zero
  /\ arg[2].tub.n_short_side_posts = Num(2)
  /\ Len(ret[1].value) = 5
  /\ Greater(ret[1].value[3].deflection_in, Zero)
  /\ ret[2].value[3].deflection_in =
       Mul(ret[1].value[3].deflection_in, R(1, 81))

\* 0.004 * q_side * H^4 / D with q_side = gamma*h/2 and
\* D = E*t^3 / (12*(1 - 0.09)), written out for the wall of tub t
UnscaledWallDeflection(t, m) ==
  LET h == MathMin(t.water_freeboard_in, t.H_tub_in)
      q == Div(Mul(m.water.gamma_psi_per_in, h), Num(2))
      D == Div(Mul(m.mdf_extira.E_psi, MathPow(t.t_mdf_side_in, 3)), R(1092, 100))
  IN Div(Mul(R(4, 1000), Mul(q, MathPow(t.H_tub_in, 4))), D)

\* a post count that is zero, absent or not positive
NoPosts(p) == p = Undefined \/ p = Null \/ (IsNumber(p) /\ ~Greater(p, Zero))

(* C7: when the wall's post count is zero, absent (undefined/null) or not  *)
(* positive, the wall profile equals the unscaled plate deflection         *)
(* 0.004*q_side*H^4/D times the mode shape at every sample point.          *)
C7_NoPostsUnscaled ==
  \A c \in Calls :
    ( /\ ret[c].fn \in WallFns
      /\ NoPosts(WallPosts(ret[c].fn, arg[c])) )
    => LET unscaled == UnscaledWallDeflection(arg[c].tub, arg[c].materials)
       IN \A i \in 1..Len(ret[c].value) :
            LET p == SampleTable(ret[c].fn)[i]
            IN ret[c].value[i].deflection_in =
                 Mul(unscaled, Mul(SinPi(p.u), SinPi(p.v)))

C7_Witness ==
  /\ Returned(1, "shortSideDeflectionProfile")
  /\ arg[1].tub.n_short_side_posts = Undefined
  /\ Returned(2, "shortSideDeflectionProfile")
  /\ arg[2].tub.n_short_side_posts = Num(-1)
  /\ Len(ret[1].value) = 5
  /\ Greater(ret[1].value[3].deflection_in, Zero)
  /\ ret[1].value[3].deflection_in =
       UnscaledWallDeflection(arg[1].tub, arg[1].materials)
  /\ ret[2].value = ret[1].value

TransverseFns ==
  {"mdfBottomDeflection", "bottomDeflectionProfile", "extrusionDeflection"}

(* C8 as stated: with n_transverse = 0 (or 1) and otherwise positive       *)
(* inputs, every calculator that reads n_transverse (mdfBottomDeflection,  *)
(* bottomDeflectionProfile, extrusionDeflection) divides by no zero and    *)
(* returns a finite result (the extrusion's clear span being positive),    *)
(* for the bottom panel the result of the single-span configuration (two   *)
(* supports).                                                              *)
C8_ZeroSupportsSingleSpan ==
  \A c1 \in Calls, c2 \in Calls :
    ( /\ SameFn(c1, c2)
      /\ ret[c1].fn \in TransverseFns
      /\ EqualButTransverse(arg[c1], arg[c2])
      /\ arg[c1].tub.n_transverse \in {Num(0), Num(1)}
      /\ arg[c2].tub.n_transverse = Num(2)
      /\ Greater(arg[c1].tub.water_freeboard_in, Zero)
      /\ ret[c1].fn = "extrusionDeflection" =>
            Greater(ret[c1].value.span, Zero) )
    => CASE ret[c1].fn = "mdfBottomDeflection" ->
              AllFinite(ret[c1].value) /\ ret[c1].value = ret[c2].value
         [] ret[c1].fn = "bottomDeflectionProfile" ->
              /\ \A i \in 1..Len(ret[c1].value) :
                   IsFinite(ret[c1].value[i].deflection_in)
              /\ ret[c1].value = ret[c2].value
         [] ret[c1].fn = "extrusionDeflection" ->
              AllFinite(ret[c1].value) /\ IsFinite(ret[c1].value.w)

\* the tub, water depth and gamma of the worked example
IsExampleBottom(a) ==
  /\ a.tub.L_tub_in = Num(60) /\ a.tub.W_tub_in = Num(30)
  /\ a.tub.n_transverse = Num(3)
  /\ a.tub.water_freeboard_in = Num(20) /\ a.tub.H_tub_in = Num(24)
  /\ a.materials.water.gamma_psi_per_in = R(361, 10000)

(* C9: mdfBottomDeflection returns                                         *)
(* span = min(L_tub_in / max(1, n_transverse - 1), W_tub_in); a 60 x 30 in *)
(* tub with 3 transverse supports gives span = 30 in, and with water depth *)
(* 20 in and gamma = 0.0361 the floor pressure used is 0.722 psi.          *)
C9_BottomSpan ==
  \A c \in Calls :
    Returned(c, "mdfBottomDeflection") =>
      LET t == arg[c].tub
          perSpan == Div(t.L_tub_in,
                         MathMax(Num(1), Sub(t.n_transverse, Num(1))))
      IN /\ ret[c].value.span = MathMin(perSpan, t.W_tub_in)
         /\ IsExampleBottom(arg[c]) =>
              /\ ret[c].value.span = Num(30)
              /\ q_bottom(t, arg[c].materials) = R(722, 1000)
              /\ ret[c].value.w_strip = Mul(R(722, 1000), Num(30))

C9_Witness ==
  /\ Returned(1, "mdfBottomDeflection")
  /\ IsExampleBottom(arg[1])
  /\ ret[1].value.span = Num(30)
  /\ ret[1].value.w_strip = R(2166, 100)

\* the smaller of two integers
IntMin(i, j) == IF i < j THEN i ELSE j

(* C10: for every integer nPoints >= 0, bottomDeflectionProfile and        *)
(* longSideDeflectionProfile return exactly min(nPoints, 11) points and    *)
(* shortSideDeflectionProfile exactly min(nPoints, 5); for every nPoints   *)
(* whatsoever no profile has more than 11 points (5 for the short wall).   *)
C10_ProfileLength ==
  \A c \in Calls :
    /\ ret[c].fn \in {"bottomDeflectionProfile", "longSideDeflectionProfile"} =>
         /\ Len(ret[c].value) <= 11
         /\ (IsNumber(arg[c].nPoints) /\ arg[c].nPoints.n >= 0) =>
              Len(ret[c].value) = IntMin(arg[c].nPoints.n, 11)
    /\ Returned(c, "shortSideDeflectionProfile") =>
         /\ Len(ret[c].value) <= 5
         /\ (IsNumber(arg[c].nPoints) /\ arg[c].nPoints.n >= 0) =>
              Len(ret[c].value) = IntMin(arg[c].nPoints.n, 5)

C10_Witness ==
  /\ Returned(1, "bottomDeflectionProfile")
  /\ arg[1].nPoints = Num(3)
  /\ Len(ret[1].value) = 3
  /\ Returned(2, "bottomDeflectionProfile")
  /\ arg[2].nPoints = Num(12)
  /\ Len(ret[2].value) = 11

-----------------------------------------------------------------------------
(* Vocabulary of the profile properties *)

EqualButPoints(a, b) == [a EXCEPT !.nPoints = b.nPoints] = b

\* the physical dimension a profile function lays its samples along
ProfileDim(fn, a) ==
  IF fn = "shortSideDeflectionProfile" THEN a.tub.W_tub_in ELSE a.tub.L_tub_in

\* the maximum deflection a profile function scales the mode shape by
ProfileWMax(fn, a) ==
  CASE fn = "bottomDeflectionProfile" -> bottomDeflection_w_max(a.tub, a.materials)
    [] fn = "shortSideDeflectionProfile" -> shortSide_w_max(a.tub, a.materials)
    [] fn = "longSideDeflectionProfile" -> longSide_w_max(a.tub, a.materials)

\* sin(pi u) sin(pi v) at each entry of the two sample patterns
PlateModeShapes ==
  [i \in 1..11 |->
     Mul(SinPi(PLATE_SAMPLE_POINTS[i].u), SinPi(PLATE_SAMPLE_POINTS[i].v))]

ShortModeShapes ==
  [i \in 1..5 |->
     Mul(SinPi(SHORT_SAMPLE_POINTS_5[i].u), SinPi(SHORT_SAMPLE_POINTS_5[i].v))]

\* sin(pi u) sin(pi v) at the i-th entry of the function's sample pattern
ModeShape(fn, i) ==
  IF fn = "shortSideDeflectionProfile"
    THEN ShortModeShapes[i] ELSE PlateModeShapes[i]

(* C11: the i-th element of every returned profile is computed from the    *)
(* i-th entry of the surface's fixed sample pattern in its listed order    *)
(* (x_in = u_i * dimension, deflection = w_max*sin(pi u_i)*sin(pi v_i)),   *)
(* and the profile returned for a smaller nPoints is exactly the prefix of *)
(* the profile returned for a larger nPoints on the same inputs.           *)
C11_ProfileOrder ==
  /\ \A c \in Calls :
       ret[c].fn \in ProfileFns =>
         LET dim == ProfileDim(ret[c].fn, arg[c])
             w_max == ProfileWMax(ret[c].fn, arg[c])
         IN \A i \in 1..Len(ret[c].value) :
              /\ ret[c].value[i].x_in = Mul(SampleTable(ret[c].fn)[i].u, dim)
              /\ ret[c].value[i].deflection_in =
                   Mul(w_max, ModeShape(ret[c].fn, i))
  /\ \A c1 \in Calls, c2 \in Calls :
       ( /\ SameFn(c1, c2)
         /\ ret[c1].fn \in ProfileFns
         /\ EqualButPoints(arg[c1], arg[c2])
         /\ arg[c1].nPoints # Undefined /\ arg[c2].nPoints # Undefined
         /\ 0 <= arg[c1].nPoints.n
         /\ arg[c1].nPoints.n <= arg[c2].nPoints.n )
       => /\ Len(ret[c1].value) <= Len(ret[c2].value)
          /\ ret[c1].value = SubSeq(ret[c2].value, 1, Len(ret[c1].value))

C11_Witness ==
  /\ Returned(1, "bottomDeflectionProfile")
  /\ Returned(2, "bottomDeflectionProfile")
  /\ EqualButPoints(arg[1], arg[2])
  /\ arg[1].nPoints = Num(3) /\ arg[2].nPoints = Num(7)
  /\ Len(ret[1].value) = 3 /\ Len(ret[2].value) = 7
  /\ ret[2].value[3].x_in = Mul(R(2, 3), arg[2].tub.L_tub_in)
  /\ Greater(ret[2].value[3].deflection_in, Zero)
  /\ ret[2].value[7].x_in = Mul(R(5, 100), arg[2].tub.L_tub_in)
  /\ ret[1].value = SubSeq(ret[2].value, 1, 3)

\* the index of the center sample (u = v = 0.5) in the function's pattern
CenterIndex(fn) == IF fn = "shortSideDeflectionProfile" THEN 3 ELSE 11

\* the number of panels a wall with post count p is divided into
WallPanels(p) == IF NoPosts(p) THEN 1 ELSE p.n + 1

\* the wall's plate deflection with its posts: unscaled * (1/panels)^4
ScaledWallDeflection(fn, a) ==
  Mul(UnscaledWallDeflection(a.tub, a.materials),
      MathPow(R(1, WallPanels(WallPosts(fn, a))), 4))

(* C12: whenever the center sample (u = v = 0.5) is included in a profile  *)
(* (11th point of bottom and long wall, 3rd point of short wall) its       *)
(* deflection equals w_max exactly (no sample of a filled tub exceeds it); *)
(* for the bottom, that value equals the delta_max returned by             *)
(* mdfBottomDeflection for the same tub and materials.                     *)
C12_CenterIsMax ==
  /\ \A c \in Calls :
       ( /\ ret[c].fn \in ProfileFns
         /\ Len(ret[c].value) >= CenterIndex(ret[c].fn) )
       => LET center == ret[c].value[CenterIndex(ret[c].fn)]
          IN /\ SampleTable(ret[c].fn)[CenterIndex(ret[c].fn)] =
                  [u |-> R(1, 2), v |-> R(1, 2)]
             /\ center.x_in = Mul(R(1, 2), ProfileDim(ret[c].fn, arg[c]))
             /\ ret[c].fn \in WallFns =>
                  center.deflection_in = ScaledWallDeflection(ret[c].fn, arg[c])
             /\ Leq(Zero, arg[c].tub.water_freeboard_in) =>
                  \A i \in 1..Len(ret[c].value) :
                    Leq(ret[c].value[i].deflection_in, center.deflection_in)
  /\ \A c1 \in Calls, c2 \in Calls :
       ( /\ Returned(c1, "mdfBottomDeflection")
         /\ Returned(c2, "bottomDeflectionProfile")
         /\ arg[c1].tub = arg[c2].tub
         /\ arg[c1].materials = arg[c2].materials
         /\ Len(ret[c2].value) >= 11 )
       => ret[c2].value[11].deflection_in = ret[c1].value.delta_max

C12_Witness ==
  /\ Returned(1, "mdfBottomDeflection")
  /\ Returned(2, "bottomDeflectionProfile")
  /\ arg[1].tub = arg[2].tub /\ arg[1].materials = arg[2].materials
  /\ Less(arg[1].tub.L_tub_in, Num(4))
  /\ Len(ret[2].value) = 11
  /\ Greater(ret[1].value.delta_max, Zero)
  /\ ret[2].value[11].deflection_in = ret[1].value.delta_max
  /\ Less(ret[2].value[10].deflection_in, ret[2].value[11].deflection_in)

-----------------------------------------------------------------------------
(* Vocabulary of the purity properties *)

\* a and b agree on every argument function fn takes
SameArguments(fn, a, b) ==
  /\ a.tub = b.tub /\ a.materials = b.materials
  /\ fn = "extrusionDeflection" => a.frame = b.frame
  /\ fn \in ProfileFns => a.nPoints = b.nPoints

(* C13: calling any calculator twice with identical inputs, with any other *)
(* calculator calls in between, yields identical outputs; the output       *)
(* depends only on the arguments of that call.                             *)
C13_Deterministic ==
  \A c1 \in Calls, c2 \in Calls :
    ( /\ SameFn(c1, c2)
      /\ SameArguments(ret[c1].fn, arg[c1], arg[c2]) )
    => ret[c1].value = ret[c2].value

\* invocation 1 returned first, a profile call was made and dropped, then
\* invocation 2 made the same call as invocation 1
C13_Witness ==
  /\ Returned(1, "shortSideDeflectionProfile")
  /\ Returned(2, "shortSideDeflectionProfile")
  /\ arg[1] = arg[2]
  /\ ret[1].array = FirstNewArray
  /\ ret[2].array = FirstNewArray + 2
  /\ Len(ret[1].value) = 3
  /\ Greater(ret[1].value[3].deflection_in, Zero)
  /\ ret[1].value = ret[2].value

\* the default value of a profile function's nPoints parameter
DefaultPoints(fn) ==
  CASE fn = "bottomDeflectionProfile" -> Num(10)
    [] fn = "shortSideDeflectionProfile" -> Num(5)
    [] fn = "longSideDeflectionProfile" -> Num(11)

\* what function fn returns for the arguments a when nothing else has run:
\* the tables are as the module loaded them
AloneResult(fn, a) ==
  CASE fn = "uniformLoadBottomStrip" -> uniformLoadBottomStrip(a.tub, a.materials)
    [] fn = "mdfBottomDeflection" -> mdfBottomDeflection(a.tub, a.materials)
    [] fn = "extrusionDeflection" ->
         extrusionDeflection(a.tub, a.frame, a.materials)
    [] fn \in ProfileFns ->
         LET pts == Slice0(SampleTable(fn), DefaultArg(a.nPoints, DefaultPoints(fn)))
             dim == ProfileDim(fn, a)
             w_max == ProfileWMax(fn, a)
         IN [i \in 1..Len(pts) |-> ProfilePoint(pts[i], dim, w_max)]

(* C14: for any interleaving of the steps of two calculator invocations    *)
(* with different inputs, each invocation returns the same result it       *)
(* returns when run alone.  (A calculator runs to completion: the steps    *)
(* that interleave are whole calls, in either order.)                      *)
C14_NonInterference ==
  ( /\ arg[1] # arg[2]
    /\ \A d \in Calls : ret[d] # NoCall )
  => \A c \in Calls : ret[c].value = AloneResult(ret[c].fn, arg[c])

C14_Witness ==
  /\ arg[1] # arg[2]
  /\ Returned(1, "longSideDeflectionProfile")
  /\ Returned(2, "bottomDeflectionProfile")
  /\ ret[2].array = FirstNewArray /\ ret[1].array = FirstNewArray + 1
  /\ arg[1].nPoints = Num(3) /\ arg[2].nPoints = Num(7)
  /\ Len(ret[1].value) = 3 /\ Len(ret[2].value) = 7
  /\ Greater(ret[1].value[3].deflection_in, Zero)
  /\ ret[1].value = AloneResult("longSideDeflectionProfile", arg[1])
  /\ ret[2].value = AloneResult("bottomDeflectionProfile", arg[2])

\* a step in which some invocation returns
CallStep == \E c \in Calls : ret[c] = NoCall /\ ret'[c] # NoCall

\* the tables are as loaded, and every held profile is in an array of its
\* own: not a table, not the array of the other held result
TablesAndResultsApart ==
  /\ tables = TablesLoaded
  /\ Len(tables.plate) = 11 /\ Len(tables.short) = 5
  /\ \A c \in Calls :
       /\ ret[c].fn \in ProfileFns =>
            /\ ret[c].array \notin {NotArray, PlateTableId, ShortTableId}
            /\ \A d \in Calls \ {c} : ret[d].array # ret[c].array
            /\ \A i \in 1..Len(ret[c].value) :
                 DOMAIN ret[c].value[i] = {"x_in", "deflection_in"}
       /\ ret[c].fn \notin ProfileFns => ret[c].array = NotArray

(* C15: after any sequence of calculator calls the module-level sample     *)
(* tables PLATE_SAMPLE_POINTS (11 entries) and SHORT_SAMPLE_POINTS_5 (5    *)
(* entries) are unchanged, the tub, frame and materials arguments are      *)
(* unchanged, and each call returns a freshly built result that shares no  *)
(* array with the tables or with an earlier result.                        *)
C15_NoMutation ==
  [][ /\ TablesAndResultsApart
      /\ TablesAndResultsApart'
      /\ CallStep =>
           /\ arg' = arg
           /\ tables' = tables
           /\ \A c \in Calls :
                (ret[c] = NoCall /\ ret'[c].fn \in ProfileFns) =>
                  /\ ret'[c].array >= nextArray
                  /\ nextArray' > ret'[c].array ]_vars

\* three profiles have been returned, one of them dropped since
C15_Witness ==
  /\ nextArray = FirstNewArray + 3
  /\ Returned(1, "bottomDeflectionProfile")
  /\ Returned(2, "longSideDeflectionProfile")
  /\ ret[1].array = FirstNewArray + 2
  /\ ret[2].array = FirstNewArray + 1
  /\ Len(ret[1].value) = 11 /\ Len(ret[2].value) = 3
  /\ tables = TablesLoaded
  /\ arg[1] \in SessionArgs /\ arg[2] \in SessionArgs

-----------------------------------------------------------------------------
\* both invocations are on the same beam (L, w, E, I)
SameBeam(a, b) == [a EXCEPT !.x = b.x] = b

\* 5 w L^4 / (384 E I)
MidspanDeflection(a) ==
  Div(Mul(Mul(Num(5), a.w), Mul(Mul(a.L, a.L), Mul(a.L, a.L))),
      Mul(Num(384), Mul(a.E, a.I)))

(* C16: for all L > 0, w, E > 0, I > 0, beamDeflectionUniformAt gives      *)
(* v(0) = 0 and v(L) = 0, v(x) = v(L - x) for 0 <= x <= L, and v(L/2)      *)
(* equals the delta_max = 5*w*L^4/(384*E*I) returned by                    *)
(* beamDeflectionUniform, which also returns M_max = w*L^2/8.              *)
C16_BeamFormulasAgree ==
  /\ \A c \in Calls :
       /\ Returned(c, "beamDeflectionUniformAt") =>
            /\ (arg[c].x = Zero \/ arg[c].x = arg[c].L) => ret[c].value = Zero
            /\ arg[c].x = Mul(R(1, 2), arg[c].L) =>
                 ret[c].value = MidspanDeflection(arg[c])
       /\ Returned(c, "beamDeflectionUniform") =>
            /\ ret[c].value.delta_max = MidspanDeflection(arg[c])
            /\ ret[c].value.M_max =
                 Div(Mul(arg[c].w, Mul(arg[c].L, arg[c].L)), Num(8))
  /\ \A c1 \in Calls, c2 \in Calls :
       /\ ( /\ Returned(c1, "beamDeflectionUniformAt")
            /\ Returned(c2, "beamDeflectionUniformAt")
            /\ SameBeam(arg[c1], arg[c2])
            /\ arg[c2].x = Sub(arg[c1].L, arg[c1].x) )
          => ret[c1].value = ret[c2].value
       /\ ( /\ Returned(c1, "beamDeflectionUniformAt")
            /\ Returned(c2, "beamDeflectionUniform")
            /\ SameBeam(arg[c1], arg[c2])
            /\ arg[c1].x = Mul(R(1, 2), arg[c1].L) )
          => ret[c1].value = ret[c2].value.delta_max

C16_Witness ==
  /\ Returned(1, "beamDeflectionUniformAt")
  /\ Returned(2, "beamDeflectionUniformAt")
  /\ SameBeam(arg[1], arg[2])
  /\ arg[1].L = Num(3) /\ arg[1].w = Num(2)
  /\ arg[1].x = R(3, 4)
  /\ arg[2].x = R(9, 4)
  /\ Greater(ret[1].value, Zero)
  /\ Less(ret[1].value, MidspanDeflection(arg[1]))
  /\ ret[1].value = ret[2].value

-----------------------------------------------------------------------------
\* 0.004 * q * a^4 / D with D = E * t^3 / (12 * (1 - 0.30^2))
PlateMaxDeflection(q, a, E, t) ==
  LET D == Div(Mul(E, Mul(t, Mul(t, t))),
               Mul(Num(12), Sub(Num(1), Mul(R(30, 100), R(30, 100)))))
  IN Div(Mul(R(4, 1000), Mul(q, Mul(Mul(a, a), Mul(a, a)))), D)

\* the plate deflection of the bottom panel of the tub of a: pressure
\* gamma*h, span min(L / max(1, n - 1), W), bottom thickness
BottomPlateDeflection(a) ==
  LET t == a.tub
      h == MathMin(t.water_freeboard_in, t.H_tub_in)
      span == MathMin(Div(t.L_tub_in, MathMax(Num(1), Sub(t.n_transverse, Num(1)))),
                      t.W_tub_in)
  IN PlateMaxDeflection(Mul(a.materials.water.gamma_psi_per_in, h), span,
                        a.materials.mdf_extira.E_psi, t.t_mdf_bottom_in)

\* the plate deflection of a whole wall: pressure gamma*h/2, span H, side
\* thickness
WallPlateDeflection(a) ==
  LET t == a.tub
      h == MathMin(t.water_freeboard_in, t.H_tub_in)
  IN PlateMaxDeflection(Div(Mul(a.materials.water.gamma_psi_per_in, h), Num(2)),
                        t.H_tub_in, a.materials.mdf_extira.E_psi, t.t_mdf_side_in)

(* C17: mdfBottomDeflection, bottomDeflectionProfile,                      *)
(* shortSideDeflectionProfile and longSideDeflectionProfile all compute    *)
(* the (unscaled) maximum plate deflection as 0.004 * q * a^4 / D with     *)
(* D = E*t^3/(12*(1 - 0.30^2)), differing only in the pressure q, the span *)
(* a and the thickness t they pass in.                                     *)
C17_OnePlateFormula ==
  \A c \in Calls :
    /\ Returned(c, "mdfBottomDeflection") =>
         ret[c].value.delta_max = BottomPlateDeflection(arg[c])
    /\ Returned(c, "bottomDeflectionProfile") =>
         LET w == BottomPlateDeflection(arg[c])
         IN \A i \in 1..Len(ret[c].value) :
              ret[c].value[i].deflection_in = Mul(w, ModeShape(ret[c].fn, i))
    /\ ret[c].fn \in WallFns =>
         LET w == WallPlateDeflection(arg[c])
             perPanel == R(1, WallPanels(WallPosts(ret[c].fn, arg[c])))
             scale == Mul(Mul(perPanel, perPanel), Mul(perPanel, perPanel))
         IN \A i \in 1..Len(ret[c].value) :
              ret[c].value[i].deflection_in =
                Mul(Mul(w, scale), ModeShape(ret[c].fn, i))

C17_Witness ==
  /\ Returned(1, "mdfBottomDeflection")
  /\ Returned(2, "longSideDeflectionProfile")
  /\ arg[1].tub = arg[2].tub /\ arg[1].materials = arg[2].materials
  /\ arg[2].tub.n_long_side_posts = Zero
  /\ Len(ret[2].value) = 11
  /\ Greater(ret[1].value.delta_max, Zero)
  /\ ret[1].value.delta_max = BottomPlateDeflection(arg[1])
  /\ ret[2].value[11].deflection_in = WallPlateDeflection(arg[2])
  /\ ret[2].value[11].deflection_in # ret[1].value.delta_max

-----------------------------------------------------------------------------
(* C18: for the example tub (60 x 30 x 24 in, 3 supports, depth 20 in,     *)
(* E = 400000, gamma = 0.0361, t = 0.75) and for every other positive      *)
(* input, mdfBottomDeflection returns finite positive delta_max and        *)
(* sigma_max, and doubling t_mdf_bottom_in with everything else equal      *)
(* divides delta_max by exactly 8.                                         *)
C18_ThicknessDoubling ==
  /\ \A c \in Calls :
       ( /\ Returned(c, "mdfBottomDeflection")
         /\ Greater(arg[c].tub.water_freeboard_in, Zero)
         /\ Greater(arg[c].tub.n_transverse, Zero) )
       => /\ IsFinite(ret[c].value.delta_max)
          /\ Greater(ret[c].value.delta_max, Zero)
          /\ IsFinite(ret[c].value.sigma_max)
          /\ Greater(ret[c].value.sigma_max, Zero)
  /\ \A c1 \in Calls, c2 \in Calls :
       ( /\ Returned(c1, "mdfBottomDeflection")
         /\ Returned(c2, "mdfBottomDeflection")
         /\ EqualButBottomThickness(arg[c1], arg[c2])
         /\ arg[c2].tub.t_mdf_bottom_in =
              Mul(Num(2), arg[c1].tub.t_mdf_bottom_in) )
       => ret[c1].value.delta_max = Mul(Num(8), ret[c2].value.delta_max)

C18_Witness ==
  /\ arg[1] = ExampleArgs
  /\ arg[2] = [ExampleArgs EXCEPT !.tub.t_mdf_bottom_in = R(3, 2)]
  /\ Returned(1, "mdfBottomDeflection")
  /\ Returned(2, "mdfBottomDeflection")
  /\ IsFinite(ret[1].value.delta_max) /\ IsFinite(ret[1].value.sigma_max)
  /\ Greater(ret[2].value.delta_max, Zero)
  /\ Greater(ret[1].value.sigma_max, Zero)
  /\ ret[1].value.delta_max = Mul(Num(8), ret[2].value.delta_max)

-----------------------------------------------------------------------------
(* Vocabulary of the load properties *)

\* W_frame_in - 2 * extr_size_mm / 25.4
ClearSpan(a) ==
  Sub(a.frame.W_frame_in, Mul(Num(2), Div(a.frame.extr_size_mm, R(254, 10))))

\* gamma * h / 2, with h the water depth clamped to the tub height
AveragePressure(a) ==
  Div(Mul(a.materials.water.gamma_psi_per_in,
          MathMin(a.tub.water_freeboard_in, a.tub.H_tub_in)), Num(2))

\* gamma * h
FullFloorPressure(a) ==
  Mul(a.materials.water.gamma_psi_per_in,
      MathMin(a.tub.water_freeboard_in, a.tub.H_tub_in))

\* the length of floor one extrusion carries
TributaryWidth(a) == Div(a.tub.L_tub_in, a.tub.n_transverse)

\* an extrusion call on a geometry with water, supports and a positive
\* clear span
ExtrusionOnPositiveGeometry(c) ==
  /\ Returned(c, "extrusionDeflection")
  /\ Greater(arg[c].tub.water_freeboard_in, Zero)
  /\ Greater(arg[c].tub.n_transverse, Zero)
  /\ Greater(ClearSpan(arg[c]), Zero)

(* C19 as stated: the line load w returned by extrusionDeflection equals   *)
(* the average pressure times the tributary width assigned to one          *)
(* extrusion, for every positive geometry (including when W_tub_in differs *)
(* from the extrusion clear span).                                         *)
C19_TributaryLoad_AsStated ==
  \A c \in Calls :
    ExtrusionOnPositiveGeometry(c) =>
      ret[c].value.w = Mul(AveragePressure(arg[c]), TributaryWidth(arg[c]))

(* C19 (amended): w equals the average pressure times the tributary area   *)
(* of one extrusion (tributary width times W_tub_in) divided by the        *)
(* extrusion clear span, so that w times the clear span is the load on the *)
(* tributary area; it is average pressure times tributary width when       *)
(* W_tub_in equals the clear span.                                         *)
C19_TributaryLoad ==
  \A c \in Calls :
    ExtrusionOnPositiveGeometry(c) =>
      LET p == AveragePressure(arg[c])
          area == Mul(TributaryWidth(arg[c]), arg[c].tub.W_tub_in)
      IN /\ ret[c].value.span = ClearSpan(arg[c])
         /\ ret[c].value.w = Div(Mul(p, area), ClearSpan(arg[c]))
         /\ Mul(ret[c].value.w, ret[c].value.span) = Mul(p, area)
         /\ arg[c].tub.W_tub_in = ClearSpan(arg[c]) =>
              ret[c].value.w = Mul(p, TributaryWidth(arg[c]))

C19_Witness ==
  /\ ExtrusionOnPositiveGeometry(1)
  /\ Greater(arg[1].tub.water_freeboard_in, Zero)
  /\ Less(arg[1].tub.W_tub_in, ClearSpan(arg[1]))
  /\ Greater(ret[1].value.w, Zero)
  /\ Less(ret[1].value.w,
          Mul(AveragePressure(arg[1]), TributaryWidth(arg[1])))
  /\ Mul(ret[1].value.w, ClearSpan(arg[1])) =
       Mul(AveragePressure(arg[1]),
           Mul(TributaryWidth(arg[1]), arg[1].tub.W_tub_in))

(* C20 as stated: every quantity that represents water load on the tub     *)
(* floor (the pressure in mdfBottomDeflection and bottomDeflectionProfile, *)
(* the value returned by uniformLoadBottomStrip for a 1-inch strip, and    *)
(* the pressure loading the transverse extrusions in extrusionDeflection)  *)
(* is derived from q_bottom = gamma * h, not from a depth-averaged value.  *)
C20_FullFloorPressure ==
  \A c \in Calls :
    Greater(arg[c].tub.water_freeboard_in, Zero) =>
      LET q == FullFloorPressure(arg[c])
      IN /\ Returned(c, "mdfBottomDeflection") =>
              /\ ret[c].value.delta_max = BottomPlateDeflection(arg[c])
              /\ ret[c].value.w_strip =
                   Mul(q, MathMax(panelLen(arg[c].tub), arg[c].tub.W_tub_in))
         /\ (Returned(c, "bottomDeflectionProfile") /\ Len(ret[c].value) >= 11) =>
              ret[c].value[11].deflection_in = BottomPlateDeflection(arg[c])
         /\ Returned(c, "uniformLoadBottomStrip") =>
              ret[c].value = Mul(q, Num(1))
         /\ ExtrusionOnPositiveGeometry(c) =>
              Mul(ret[c].value.w, ClearSpan(arg[c])) =
                Mul(q, Mul(TributaryWidth(arg[c]), arg[c].tub.W_tub_in))

-----------------------------------------------------------------------------
(* Vocabulary of the result-shape properties *)

\* x is a finite number greater than zero
Positive(x) == IsFinite(x) /\ Greater(x, Zero)

\* every geometry, frame and material value is positive, at least one
\* transverse support, water in the tub
PositiveInputs(a) ==
  /\ Positive(a.tub.L_tub_in) /\ Positive(a.tub.W_tub_in)
  /\ Positive(a.tub.H_tub_in)
  /\ Positive(a.tub.t_mdf_bottom_in) /\ Positive(a.tub.t_mdf_side_in)
  /\ Positive(a.tub.water_freeboard_in)
  /\ Leq(Num(1), a.tub.n_transverse)
  /\ Positive(a.frame.L_frame_in) /\ Positive(a.frame.W_frame_in)
  /\ Positive(a.frame.H_frame_in) /\ Positive(a.frame.extr_size_mm)
  /\ Positive(a.materials.water.gamma_psi_per_in)
  /\ Positive(a.materials.mdf_extira.E_psi)
  /\ Positive(a.materials.aluminum_2525.E_psi)
  /\ Positive(a.materials.aluminum_2525.I_in4)
  /\ Positive(a.materials.aluminum_2525.c_in)

\* the load field of a summary result: w_strip of the bottom panel, w of
\* the extrusion
LoadOf(r) == IF "w_strip" \in DOMAIN r THEN r.w_strip ELSE r.w

SummaryFns == {"mdfBottomDeflection", "extrusionDeflection"}

\* all five fields of a summary result are finite and positive
CompleteResult(r) ==
  /\ DOMAIN r = {"span", "M_max", "delta_max", "sigma_max"}
                  \cup (IF "w_strip" \in DOMAIN r THEN {"w_strip"} ELSE {"w"})
  /\ Positive(r.span) /\ Positive(LoadOf(r)) /\ Positive(r.M_max)
  /\ Positive(r.delta_max) /\ Positive(r.sigma_max)

(* C21 as stated: for every input in which all geometry, frame and         *)
(* material values are positive, n_transverse >= 1 and water depth > 0,    *)
(* mdfBottomDeflection and extrusionDeflection each return all five fields *)
(* (span, load, M_max, delta_max, sigma_max) as finite positive numbers.   *)
C21_CompleteResults_AsStated ==
  \A c \in Calls :
    (ret[c].fn \in SummaryFns /\ PositiveInputs(arg[c])) =>
      CompleteResult(ret[c].value)

(* C21 (amended): for every such input, mdfBottomDeflection returns all    *)
(* five fields as finite positive numbers, and so does extrusionDeflection *)
(* when the frame is wider than two extrusions, that is when the clear     *)
(* span W_frame_in - 2 * extr_size_mm / 25.4 is positive.                  *)
C21_CompleteResults ==
  \A c \in Calls :
    PositiveInputs(arg[c]) =>
      /\ Returned(c, "mdfBottomDeflection") => CompleteResult(ret[c].value)
      /\ (Returned(c, "extrusionDeflection")
            /\ Greater(ClearSpan(arg[c]), Zero)) =>
           CompleteResult(ret[c].value)

C21_Witness ==
  /\ Returned(1, "mdfBottomDeflection") /\ Returned(2, "extrusionDeflection")
  /\ PositiveInputs(arg[1]) /\ PositiveInputs(arg[2])
  /\ arg[1].tub.n_transverse = Num(1)
  /\ Greater(ClearSpan(arg[2]), Zero)
  /\ CompleteResult(ret[1].value) /\ CompleteResult(ret[2].value)

\* the side of the bottom panel perpendicular to its span, as the claim
\* writes it: max(L_tub_in / max(1, n_transverse - 1), W_tub_in)
PerpendicularSide(a) ==
  MathMax(Div(a.tub.L_tub_in,
              MathMax(Num(1), Sub(a.tub.n_transverse, Num(1)))),
          a.tub.W_tub_in)

(* C22: in the result of mdfBottomDeflection, with b =                     *)
(* max(L_tub_in / max(1, n_transverse - 1), W_tub_in) the side             *)
(* perpendicular to the span, w_strip = q_bottom * b, M_max =              *)
(* w_strip * span^2 / 8 (the value beamDeflectionUniform returns for that  *)
(* span and load), and sigma_max = M_max * (t/2) / (b * t^3 / 12).         *)
C22_BottomStressConsistent ==
  \A c \in Calls :
    Returned(c, "mdfBottomDeflection") =>
      LET r == ret[c].value
          b == PerpendicularSide(arg[c])
          t == arg[c].tub.t_mdf_bottom_in
          I == Div(Mul(b, MathPow(t, 3)), Num(12))
          beam == beamDeflectionUniform(r.span, r.w_strip,
                                        arg[c].materials.mdf_extira.E_psi, I)
      IN /\ r.w_strip = Mul(FullFloorPressure(arg[c]), b)
         /\ r.M_max = Div(Mul(r.w_strip, MathPow(r.span, 2)), Num(8))
         /\ r.M_max = beam.M_max
         /\ r.sigma_max = Div(Mul(r.M_max, Div(t, Num(2))), I)

C22_Witness ==
  /\ Returned(1, "mdfBottomDeflection")
  /\ PositiveInputs(arg[1])
  /\ Less(ret[1].value.span, PerpendicularSide(arg[1]))
  /\ ret[1].value.w_strip =
       Mul(FullFloorPressure(arg[1]), PerpendicularSide(arg[1]))
  /\ Positive(ret[1].value.M_max) /\ Positive(ret[1].value.sigma_max)

\* a and b agree on every argument except possibly the frame's length and
\* height
EqualButFrameLengthHeight(a, b) ==
  [a EXCEPT !.frame.L_frame_in = b.frame.L_frame_in,
            !.frame.H_frame_in = b.frame.H_frame_in] = b

(* C23: extrusionDeflection returns span = W_frame_in - 2 * (extr_size_mm  *)
(* / 25.4), M_max = w * span^2 / 8 and delta_max = 5 * w * span^4 /        *)
(* (384 * E_al * I_al) for its line load w, and sigma_max = M_max * c_in / *)
(* I_in4; L_frame_in and H_frame_in do not affect any returned field.      *)
C23_ExtrusionResult ==
  /\ \A c \in Calls :
       Returned(c, "extrusionDeflection") =>
         LET r == ret[c].value
             al == arg[c].materials.aluminum_2525
         IN /\ r.span = ClearSpan(arg[c])
            /\ r.M_max = Div(Mul(r.w, MathPow(r.span, 2)), Num(8))
            /\ r.delta_max = Div(Mul(Num(5), Mul(r.w, MathPow(r.span, 4))),
                                 Mul(Num(384), Mul(al.E_psi, al.I_in4)))
            /\ r.sigma_max = Div(Mul(r.M_max, al.c_in), al.I_in4)
  /\ \A c1 \in Calls, c2 \in Calls :
       ( /\ Returned(c1, "extrusionDeflection")
         /\ Returned(c2, "extrusionDeflection")
         /\ EqualButFrameLengthHeight(arg[c1], arg[c2]) )
       => ret[c1].value = ret[c2].value

C23_Witness ==
  /\ Returned(1, "extrusionDeflection") /\ Returned(2, "extrusionDeflection")
  /\ EqualButFrameLengthHeight(arg[1], arg[2])
  /\ arg[1].frame.L_frame_in # arg[2].frame.L_frame_in
  /\ PositiveInputs(arg[1])
  /\ Greater(ClearSpan(arg[1]), Zero)
  /\ CompleteResult(ret[1].value)
  /\ ret[1].value = ret[2].value

\* the profile holds the center sample (u = 1/2): a point at half the
\* surface's primary dimension
HasCenterSample(fn, a, profile) ==
  \E i \in 1..Len(profile) :
    profile[i].x_in = Mul(R(1, 2), ProfileDim(fn, a))

PositivePanelInputs(a) ==
  /\ Positive(a.tub.L_tub_in) /\ Positive(a.tub.W_tub_in)
  /\ Positive(a.tub.H_tub_in)
  /\ Positive(a.tub.t_mdf_bottom_in) /\ Positive(a.tub.t_mdf_side_in)
  /\ Positive(a.tub.water_freeboard_in)
  /\ Positive(a.materials.water.gamma_psi_per_in)
  /\ Positive(a.materials.mdf_extira.E_psi)

(* C25: for positive inputs and water depth > 0, every deflection_in in    *)
(* every returned profile satisfies 0 < deflection_in <= w_max of that     *)
(* surface (no sample lies on an edge, so none is zero), and no point of   *)
(* bottomDeflectionProfile exceeds the delta_max returned by               *)
(* mdfBottomDeflection for the same inputs.                                *)
C25_ProfileBounded ==
  /\ \A c \in Calls :
       (ret[c].fn \in ProfileFns /\ PositivePanelInputs(arg[c])) =>
         LET w_max == ProfileWMax(ret[c].fn, arg[c])
         IN \A i \in 1..Len(ret[c].value) :
              /\ Greater(ret[c].value[i].deflection_in, Zero)
              /\ Leq(ret[c].value[i].deflection_in, w_max)
  /\ \A c1 \in Calls, c2 \in Calls :
       ( /\ Returned(c1, "bottomDeflectionProfile")
         /\ Returned(c2, "mdfBottomDeflection")
         /\ arg[c1].tub = arg[c2].tub
         /\ arg[c1].materials = arg[c2].materials
         /\ PositivePanelInputs(arg[c1]) )
       => \A i \in 1..Len(ret[c1].value) :
            Leq(ret[c1].value[i].deflection_in, ret[c2].value.delta_max)

C25_Witness ==
  /\ Returned(1, "bottomDeflectionProfile")
  /\ Returned(2, "mdfBottomDeflection")
  /\ arg[1].tub = arg[2].tub /\ arg[1].materials = arg[2].materials
  /\ PositivePanelInputs(arg[1])
  /\ Len(ret[1].value) = 11
  /\ Positive(ret[1].value[1].deflection_in)
  /\ Less(ret[1].value[1].deflection_in, ret[2].value.delta_max)
  /\ ret[1].value[11].deflection_in = ret[2].value.delta_max

\* a and b agree on every argument except possibly the water's unit weight
EqualButGamma(a, b) ==
  [a EXCEPT !.materials.water.gamma_psi_per_in =
              b.materials.water.gamma_psi_per_in] = b

\* the water depth is positive and not above the tub's rim
DepthWithinTub(a) ==
  /\ Greater(a.tub.water_freeboard_in, Zero)
  /\ Leq(a.tub.water_freeboard_in, a.tub.H_tub_in)

\* result r2 is result r1 with every load-driven value multiplied by k
\* and every position kept
ScaledBy(k, fn, r1, r2) ==
  IF fn \in SummaryFns
    THEN /\ r2.span = r1.span
         /\ LoadOf(r2) = Mul(k, LoadOf(r1))
         /\ r2.M_max = Mul(k, r1.M_max)
         /\ r2.delta_max = Mul(k, r1.delta_max)
         /\ r2.sigma_max = Mul(k, r1.sigma_max)
    ELSE /\ Len(r2) = Len(r1)
         /\ \A i \in 1..Len(r1) :
              /\ r2[i].x_in = r1[i].x_in
              /\ r2[i].deflection_in = Mul(k, r1[i].deflection_in)

(* C26: for every k > 0 with k*h <= H_tub_in, replacing the water depth h  *)
(* by k*h (or gamma by k*gamma) multiplies delta_max, sigma_max, M_max and *)
(* the load of mdfBottomDeflection and extrusionDeflection, and every      *)
(* deflection_in of the three profiles, by exactly k, while span and every *)
(* x_in stay the same.                                                     *)
C26_LinearInDepthAndGamma ==
  \A c1 \in Calls, c2 \in Calls :
    (SameFn(c1, c2) /\ ret[c1].fn \in SummaryFns \cup ProfileFns) =>
      /\ ( /\ EqualButDepth(arg[c1], arg[c2])
           /\ DepthWithinTub(arg[c1]) /\ DepthWithinTub(arg[c2]) )
         => ScaledBy(Div(arg[c2].tub.water_freeboard_in,
                         arg[c1].tub.water_freeboard_in),
                     ret[c1].fn, ret[c1].value, ret[c2].value)
      /\ ( /\ EqualButGamma(arg[c1], arg[c2])
           /\ Greater(arg[c1].materials.water.gamma_psi_per_in, Zero)
           /\ Greater(arg[c2].materials.water.gamma_psi_per_in, Zero) )
         => ScaledBy(Div(arg[c2].materials.water.gamma_psi_per_in,
                         arg[c1].materials.water.gamma_psi_per_in),
                     ret[c1].fn, ret[c1].value, ret[c2].value)

C26_Witness ==
  /\ Returned(1, "longSideDeflectionProfile")
  /\ Returned(2, "longSideDeflectionProfile")
  /\ EqualButDepth(arg[1], arg[2])
  /\ DepthWithinTub(arg[1]) /\ DepthWithinTub(arg[2])
  /\ arg[2].tub.water_freeboard_in =
       Mul(Num(3), arg[1].tub.water_freeboard_in)
  /\ Len(ret[1].value) = 11
  /\ Positive(ret[1].value[11].deflection_in)
  /\ ret[2].value[11].deflection_in =
       Mul(Num(3), ret[1].value[11].deflection_in)

\* a and b agree on every argument except possibly the tub's width
EqualButWidth(a, b) == [a EXCEPT !.tub.W_tub_in = b.tub.W_tub_in] = b

\* a and b agree on every argument except possibly the tub's length
EqualButLength(a, b) == [a EXCEPT !.tub.L_tub_in = b.tub.L_tub_in] = b

\* the inputs a wall's plate deflection is computed from, its horizontal
\* dimension and its posts aside
WallInputs(a) ==
  <<a.tub.H_tub_in, a.tub.t_mdf_side_in, a.tub.water_freeboard_in,
    a.materials.water.gamma_psi_per_in, a.materials.mdf_extira.E_psi>>

\* the deflection at the center sample of a wall profile that holds it
CenterDeflection(c) == ret[c].value[CenterIndex(ret[c].fn)].deflection_in

HoldsCenter(c) == Len(ret[c].value) >= CenterIndex(ret[c].fn)

\* the same deflection at every sample
SameDeflections(r1, r2) ==
  /\ Len(r1) = Len(r2)
  /\ \A i \in 1..Len(r1) : r1[i].deflection_in = r2[i].deflection_in

(* C27: the w_max used by shortSideDeflectionProfile is independent of     *)
(* W_tub_in and the w_max used by longSideDeflectionProfile is independent *)
(* of L_tub_in (for positive dimensions), so with equal post counts the    *)
(* center deflection of the long wall equals the center deflection of the  *)
(* short wall for every L_tub_in and W_tub_in.                             *)
C27_WallWidthIndependent ==
  \A c1 \in Calls, c2 \in Calls :
    /\ ( /\ Returned(c1, "shortSideDeflectionProfile")
         /\ Returned(c2, "shortSideDeflectionProfile")
         /\ EqualButWidth(arg[c1], arg[c2]) )
       => /\ shortSide_w_max(arg[c1].tub, arg[c1].materials) =
               shortSide_w_max(arg[c2].tub, arg[c2].materials)
          /\ SameDeflections(ret[c1].value, ret[c2].value)
    /\ ( /\ Returned(c1, "longSideDeflectionProfile")
         /\ Returned(c2, "longSideDeflectionProfile")
         /\ EqualButLength(arg[c1], arg[c2]) )
       => /\ longSide_w_max(arg[c1].tub, arg[c1].materials) =
               longSide_w_max(arg[c2].tub, arg[c2].materials)
          /\ SameDeflections(ret[c1].value, ret[c2].value)
    /\ ( /\ Returned(c1, "shortSideDeflectionProfile")
         /\ Returned(c2, "longSideDeflectionProfile")
         /\ WallInputs(arg[c1]) = WallInputs(arg[c2])
         /\ postCount(arg[c1].tub.n_short_side_posts) =
              postCount(arg[c2].tub.n_long_side_posts)
         /\ HoldsCenter(c1) /\ HoldsCenter(c2) )
       => CenterDeflection(c1) = CenterDeflection(c2)

C27_Witness ==
  /\ Returned(1, "shortSideDeflectionProfile")
  /\ Returned(2, "longSideDeflectionProfile")
  /\ WallInputs(arg[1]) = WallInputs(arg[2])
  /\ postCount(arg[1].tub.n_short_side_posts) = Num(1)
  /\ postCount(arg[2].tub.n_long_side_posts) = Num(1)
  /\ Less(arg[1].tub.W_tub_in, arg[2].tub.L_tub_in)
  /\ HoldsCenter(1) /\ HoldsCenter(2)
  /\ Positive(CenterDeflection(1))
  /\ CenterDeflection(1) = CenterDeflection(2)

\* the support spacing L_tub_in / (n_transverse - 1) exists and is at least
\* the tub's width
SpacingAtLeastWidth(a) ==
  /\ Leq(Num(2), a.tub.n_transverse)
  /\ Leq(a.tub.W_tub_in,
         Div(a.tub.L_tub_in, Sub(a.tub.n_transverse, Num(1))))

(* C28: for fixed other inputs (a water depth that is not negative),       *)
(* delta_max and sigma_max of mdfBottomDeflection are non-increasing in    *)
(* n_transverse, identical for every n_transverse <= 2, and constant for   *)
(* all n_transverse whose support spacing L_tub_in / (n_transverse - 1) is *)
(* at least W_tub_in (where span = W_tub_in).                              *)
C28_SupportsNeverWorse ==
  \A c1 \in Calls, c2 \in Calls :
    ( /\ Returned(c1, "mdfBottomDeflection")
      /\ Returned(c2, "mdfBottomDeflection")
      /\ EqualButTransverse(arg[c1], arg[c2])
      /\ Leq(Zero, arg[c1].tub.water_freeboard_in) )
    => LET r1 == ret[c1].value
           r2 == ret[c2].value
           n1 == arg[c1].tub.n_transverse
           n2 == arg[c2].tub.n_transverse
       IN /\ Leq(n1, n2) => /\ Leq(r2.delta_max, r1.delta_max)
                            /\ Leq(r2.sigma_max, r1.sigma_max)
          /\ (Leq(n1, Num(2)) /\ Leq(n2, Num(2))) => r1 = r2
          /\ SpacingAtLeastWidth(arg[c1]) => r1.span = arg[c1].tub.W_tub_in
          /\ (SpacingAtLeastWidth(arg[c1]) /\ SpacingAtLeastWidth(arg[c2])) =>
               /\ r1.delta_max = r2.delta_max
               /\ r1.sigma_max = r2.sigma_max

C28_Witness ==
  /\ Returned(1, "mdfBottomDeflection") /\ Returned(2, "mdfBottomDeflection")
  /\ EqualButTransverse(arg[1], arg[2])
  /\ PositiveInputs(arg[1])
  /\ arg[1].tub.n_transverse = Num(2) /\ arg[2].tub.n_transverse = Num(3)
  /\ SpacingAtLeastWidth(arg[1]) /\ ~SpacingAtLeastWidth(arg[2])
  /\ Less(ret[2].value.delta_max, ret[1].value.delta_max)
  /\ Less(ret[2].value.sigma_max, ret[1].value.sigma_max)
  /\ Positive(ret[2].value.delta_max)

\* a and b agree on every argument except possibly the tub's length, width
\* and height
EqualButDimensions(a, b) ==
  [a EXCEPT !.tub.L_tub_in = b.tub.L_tub_in,
            !.tub.W_tub_in = b.tub.W_tub_in,
            !.tub.H_tub_in = b.tub.H_tub_in] = b

\* 3 * q_bottom * span^2 / (4 * t^2)
BottomStressClosedForm(a, span) ==
  Div(Mul(Num(3), Mul(FullFloorPressure(a), MathPow(span, 2))),
      Mul(Num(4), MathPow(a.tub.t_mdf_bottom_in, 2)))

(* C29 as stated: the sigma_max returned by mdfBottomDeflection equals     *)
(* 3 * q_bottom * span^2 / (4 * t^2) and is unchanged by any change of tub *)
(* dimensions that leaves span = min(panel length, W_tub_in) the same.     *)
C29_StressIndependentOfSide_AsStated ==
  /\ \A c \in Calls :
       Returned(c, "mdfBottomDeflection") =>
         ret[c].value.sigma_max =
           BottomStressClosedForm(arg[c], ret[c].value.span)
  /\ \A c1 \in Calls, c2 \in Calls :
       ( /\ Returned(c1, "mdfBottomDeflection")
         /\ Returned(c2, "mdfBottomDeflection")
         /\ EqualButDimensions(arg[c1], arg[c2])
         /\ ret[c1].value.span = ret[c2].value.span )
       => ret[c1].value.sigma_max = ret[c2].value.sigma_max

(* C29 (amended): the sigma_max returned by mdfBottomDeflection equals     *)
(* 3 * q_bottom * span^2 / (4 * t^2) and is unchanged by any change of tub *)
(* dimensions that leaves the span and the effective water depth           *)
(* min(water_freeboard_in, H_tub_in) the same.                             *)
C29_StressIndependentOfSide ==
  /\ \A c \in Calls :
       Returned(c, "mdfBottomDeflection") =>
         ret[c].value.sigma_max =
           BottomStressClosedForm(arg[c], ret[c].value.span)
  /\ \A c1 \in Calls, c2 \in Calls :
       ( /\ Returned(c1, "mdfBottomDeflection")
         /\ Returned(c2, "mdfBottomDeflection")
         /\ EqualButDimensions(arg[c1], arg[c2])
         /\ ret[c1].value.span = ret[c2].value.span
         /\ h_water(arg[c1].tub) = h_water(arg[c2].tub) )
       => ret[c1].value.sigma_max = ret[c2].value.sigma_max

C29_Witness ==
  /\ Returned(1, "mdfBottomDeflection") /\ Returned(2, "mdfBottomDeflection")
  /\ EqualButDimensions(arg[1], arg[2])
  /\ arg[1].tub.L_tub_in # arg[2].tub.L_tub_in
  /\ arg[1].tub.W_tub_in # arg[2].tub.W_tub_in
  /\ PositiveInputs(arg[1])
  /\ ret[1].value.span = ret[2].value.span
  /\ PerpendicularSide(arg[1]) # PerpendicularSide(arg[2])
  /\ ret[1].value.w_strip # ret[2].value.w_strip
  /\ Positive(ret[1].value.sigma_max)
  /\ ret[1].value.sigma_max = ret[2].value.sigma_max

\* the same position at every sample
SamePositions(r1, r2) ==
  /\ Len(r1) = Len(r2)
  /\ \A i \in 1..Len(r1) : r1[i].x_in = r2[i].x_in

(* C30: every x_in returned by bottomDeflectionProfile and                 *)
(* longSideDeflectionProfile equals u_i * L_tub_in and by                  *)
(* shortSideDeflectionProfile equals u_i * W_tub_in, lies strictly between *)
(* 0 and that dimension, and is unchanged by water depth, thickness,       *)
(* material values, n_transverse and the post counts (positions use the    *)
(* full wall width even when posts subdivide it).                          *)
C30_SamplePositions ==
  /\ \A c \in Calls :
       ret[c].fn \in ProfileFns =>
         LET dim == IF Returned(c, "shortSideDeflectionProfile")
                      THEN arg[c].tub.W_tub_in ELSE arg[c].tub.L_tub_in
             pattern == IF Returned(c, "shortSideDeflectionProfile")
                          THEN SHORT_SAMPLE_POINTS_5 ELSE PLATE_SAMPLE_POINTS
         IN \A i \in 1..Len(ret[c].value) :
              /\ ret[c].value[i].x_in = Mul(pattern[i].u, dim)
              /\ Greater(ret[c].value[i].x_in, Zero)
              /\ Less(ret[c].value[i].x_in, dim)
  /\ \A c1 \in Calls, c2 \in Calls :
       ( /\ SameFn(c1, c2) /\ ret[c1].fn \in ProfileFns
         /\ arg[c1].tub.L_tub_in = arg[c2].tub.L_tub_in
         /\ arg[c1].tub.W_tub_in = arg[c2].tub.W_tub_in
         /\ arg[c1].nPoints = arg[c2].nPoints )
       => SamePositions(ret[c1].value, ret[c2].value)

C30_Witness ==
  /\ Returned(1, "shortSideDeflectionProfile")
  /\ Returned(2, "shortSideDeflectionProfile")
  /\ EqualButShortPosts(arg[1], arg[2])
  /\ postCount(arg[1].tub.n_short_side_posts) = Num(0)
  /\ postCount(arg[2].tub.n_short_side_posts) = Num(2)
  /\ Len(ret[1].value) = 5
  /\ ret[2].value[3].x_in = Mul(R(1, 2), arg[2].tub.W_tub_in)
  /\ SamePositions(ret[1].value, ret[2].value)
  /\ ret[1].value[3].deflection_in # ret[2].value[3].deflection_in

=============================================================================
